---- MODULE Spec2Model ----
(***************************************************************************)
(* Wikisocion client: the intertype relation classifier, the dual set the  *)
(* client builds from the relations dataset, and the components that use   *)
(* them (Relations page, radial map, type page).                           *)
(*                                                                         *)
(* Type codes and dual keys are JavaScript strings whose characters        *)
(* matter (they are sorted, joined, split and searched), so they are       *)
(* modelled as sequences of one-character strings.  Enumerated labels      *)
(* (quadra, temperament, information element, relation label, colour) are  *)
(* only ever compared for equality and stay plain strings.                 *)
(***************************************************************************)
EXTENDS Integers, Sequences, FiniteSets, TLC

(* ------------------------------------------------------------------ *)
(* String primitives                                                   *)
(* ------------------------------------------------------------------ *)

Alphabet ==
  <<"A","B","C","D","E","F","G","H","I","J","K","L","M",
    "N","O","P","Q","R","S","T","U","V","W","X","Y","Z">>

\* UTF-16 code unit of a character ("-" is 45, "A".."Z" are 65..90).
CharCode(c) ==
  IF c = "-" THEN 45 ELSE 64 + (CHOOSE i \in 1..Len(Alphabet) : Alphabet[i] = c)

\* s < t in the order Array.prototype.sort uses without a comparator:
\* lexicographic by code unit, a proper prefix sorts first.
StrLess(s, t) ==
  \E i \in 1..Len(t) :
     /\ \A j \in 1..(i-1) : j <= Len(s) /\ s[j] = t[j]
     /\ \/ i > Len(s)
        \/ i <= Len(s) /\ CharCode(s[i]) < CharCode(t[i])

\* [x, y].sort()
Sort2(x, y) == IF StrLess(y, x) THEN <<y, x>> ELSE <<x, y>>

\* parts.join(sep)
RECURSIVE Join(_, _)
Join(parts, sep) ==
  IF Len(parts) = 0 THEN <<>>
  ELSE IF Len(parts) = 1 THEN parts[1]
  ELSE parts[1] \o sep \o Join(Tail(parts), sep)

\* s.split(ch) for a one-character separator
RECURSIVE Split(_, _)
Split(s, ch) ==
  IF \E i \in 1..Len(s) : s[i] = ch
  THEN LET i == CHOOSE k \in 1..Len(s) : s[k] = ch /\ \A j \in 1..(k-1) : s[j] # ch
       IN  <<SubSeq(s, 1, i-1)>> \o Split(SubSeq(s, i+1, Len(s)), ch)
  ELSE <<s>>

\* s.includes(sub)
Includes(s, sub) ==
  \E i \in 0..(Len(s) - Len(sub)) : SubSeq(s, i+1, i+Len(sub)) = sub

\* arr.find(pred) is modelled at each use; Null stands for null / undefined
\* where a code or key is expected (no code is the empty string).
Null == <<>>

(* ------------------------------------------------------------------ *)
(* Static tables                                                       *)
(* ------------------------------------------------------------------ *)

ILE == <<"I","L","E">>
SEI == <<"S","E","I">>
LII == <<"L","I","I">>
ESE == <<"E","S","E">>
SLE == <<"S","L","E">>
IEI == <<"I","E","I">>
LSI == <<"L","S","I">>
EIE == <<"E","I","E">>
SEE == <<"S","E","E">>
ILI == <<"I","L","I">>
ESI == <<"E","S","I">>
LIE == <<"L","I","E">>
LSE == <<"L","S","E">>
EII == <<"E","I","I">>
SLI == <<"S","L","I">>
IEE == <<"I","E","E">>

TYPE_CODES ==
  <<ILE, SEI, LII, ESE,
    SLE, IEI, LSI, EIE,
    SEE, ILI, ESI, LIE,
    LSE, EII, SLI, IEE>>

Info(q, t, l, c) == [quadra |-> q, temperament |-> t, leading |-> l, creative |-> c]

\* TYPE_INFO with the creative element of LSE mistyped as its leading one.
TYPE_INFO_typo ==
  (ILE :> Info("Alpha", "EP", "Ne", "Ti")) @@
  (SEI :> Info("Alpha", "IJ", "Si", "Fe")) @@
  (LII :> Info("Alpha", "IJ", "Ti", "Ne")) @@
  (ESE :> Info("Alpha", "EJ", "Fe", "Si")) @@
  (SLE :> Info("Beta", "EP", "Se", "Ti")) @@
  (IEI :> Info("Beta", "IP", "Ni", "Fe")) @@
  (LSI :> Info("Beta", "IJ", "Ti", "Se")) @@
  (EIE :> Info("Beta", "EJ", "Fe", "Ni")) @@
  (SEE :> Info("Gamma", "EP", "Se", "Fi")) @@
  (ILI :> Info("Gamma", "IP", "Ni", "Te")) @@
  (ESI :> Info("Gamma", "IJ", "Fi", "Se")) @@
  (LIE :> Info("Gamma", "EJ", "Te", "Ni")) @@
  (LSE :> Info("Delta", "EJ", "Te", "Te")) @@
  (EII :> Info("Delta", "IJ", "Fi", "Ne")) @@
  (SLI :> Info("Delta", "IP", "Si", "Te")) @@
  (IEE :> Info("Delta", "EP", "Ne", "Fi"))

\* fullName and alias are carried by the records but read by no operation
\* modelled here.
TYPE_INFO ==
  (ILE :> Info("Alpha", "EP", "Ne", "Ti")) @@
  (SEI :> Info("Alpha", "IJ", "Si", "Fe")) @@
  (LII :> Info("Alpha", "IJ", "Ti", "Ne")) @@
  (ESE :> Info("Alpha", "EJ", "Fe", "Si")) @@
  (SLE :> Info("Beta",  "EP", "Se", "Ti")) @@
  (IEI :> Info("Beta",  "IP", "Ni", "Fe")) @@
  (LSI :> Info("Beta",  "IJ", "Ti", "Se")) @@
  (EIE :> Info("Beta",  "EJ", "Fe", "Ni")) @@
  (SEE :> Info("Gamma", "EP", "Se", "Fi")) @@
  (ILI :> Info("Gamma", "IP", "Ni", "Te")) @@
  (ESI :> Info("Gamma", "IJ", "Fi", "Se")) @@
  (LIE :> Info("Gamma", "EJ", "Te", "Ni")) @@
  (LSE :> Info("Delta", "EJ", "Te", "Si")) @@
  (EII :> Info("Delta", "IJ", "Fi", "Ne")) @@
  (SLI :> Info("Delta", "IP", "Si", "Te")) @@
  (IEE :> Info("Delta", "EP", "Ne", "Fi"))

\* The copy of the table in src/data/loaders.js.
TYPE_INFO_loaders ==
  (ILE :> Info("Alpha", "EP", "Ne", "Ti")) @@
  (SEI :> Info("Alpha", "IJ", "Si", "Fe")) @@
  (LII :> Info("Alpha", "IJ", "Ti", "Ne")) @@
  (ESE :> Info("Alpha", "EJ", "Fe", "Si")) @@
  (SLE :> Info("Beta", "EP", "Se", "Ti")) @@
  (IEI :> Info("Beta", "IP", "Ni", "Fe")) @@
  (LSI :> Info("Beta", "IJ", "Ti", "Se")) @@
  (EIE :> Info("Beta", "EJ", "Fe", "Ni")) @@
  (SEE :> Info("Gamma", "EP", "Se", "Fi")) @@
  (ILI :> Info("Gamma", "IP", "Ni", "Te")) @@
  (ESI :> Info("Gamma", "IJ", "Fi", "Se")) @@
  (LIE :> Info("Gamma", "EJ", "Te", "Ni")) @@
  (LSE :> Info("Delta", "EJ", "Te", "Si")) @@
  (EII :> Info("Delta", "IJ", "Fi", "Ne")) @@
  (SLI :> Info("Delta", "IP", "Si", "Te")) @@
  (IEE :> Info("Delta", "EP", "Ne", "Fi"))

\* The copy of the table in scraper/prebuild.js.
TYPE_INFO_prebuild ==
  (ILE :> Info("Alpha", "EP", "Ne", "Ti")) @@
  (SEI :> Info("Alpha", "IJ", "Si", "Fe")) @@
  (LII :> Info("Alpha", "IJ", "Ti", "Ne")) @@
  (ESE :> Info("Alpha", "EJ", "Fe", "Si")) @@
  (SLE :> Info("Beta", "EP", "Se", "Ti")) @@
  (IEI :> Info("Beta", "IP", "Ni", "Fe")) @@
  (LSI :> Info("Beta", "IJ", "Ti", "Se")) @@
  (EIE :> Info("Beta", "EJ", "Fe", "Ni")) @@
  (SEE :> Info("Gamma", "EP", "Se", "Fi")) @@
  (ILI :> Info("Gamma", "IP", "Ni", "Te")) @@
  (ESI :> Info("Gamma", "IJ", "Fi", "Se")) @@
  (LIE :> Info("Gamma", "EJ", "Te", "Ni")) @@
  (LSE :> Info("Delta", "EJ", "Te", "Si")) @@
  (EII :> Info("Delta", "IJ", "Fi", "Ne")) @@
  (SLI :> Info("Delta", "IP", "Si", "Te")) @@
  (IEE :> Info("Delta", "EP", "Ne", "Fi"))

\* scraper/scrape.ts keeps the fields in two tables.
QUADRA_INFO ==
  (ILE :> [quadra |-> "Alpha", temperament |-> "EP"]) @@
  (SEI :> [quadra |-> "Alpha", temperament |-> "IJ"]) @@
  (LII :> [quadra |-> "Alpha", temperament |-> "IJ"]) @@
  (ESE :> [quadra |-> "Alpha", temperament |-> "EJ"]) @@
  (SLE :> [quadra |-> "Beta", temperament |-> "EP"]) @@
  (IEI :> [quadra |-> "Beta", temperament |-> "IP"]) @@
  (LSI :> [quadra |-> "Beta", temperament |-> "IJ"]) @@
  (EIE :> [quadra |-> "Beta", temperament |-> "EJ"]) @@
  (SEE :> [quadra |-> "Gamma", temperament |-> "EP"]) @@
  (ILI :> [quadra |-> "Gamma", temperament |-> "IP"]) @@
  (ESI :> [quadra |-> "Gamma", temperament |-> "IJ"]) @@
  (LIE :> [quadra |-> "Gamma", temperament |-> "EJ"]) @@
  (LSE :> [quadra |-> "Delta", temperament |-> "EJ"]) @@
  (EII :> [quadra |-> "Delta", temperament |-> "IJ"]) @@
  (SLI :> [quadra |-> "Delta", temperament |-> "IP"]) @@
  (IEE :> [quadra |-> "Delta", temperament |-> "EP"])

FUNCTION_INFO ==
  (ILE :> [leading |-> "Ne", creative |-> "Ti"]) @@
  (SEI :> [leading |-> "Si", creative |-> "Fe"]) @@
  (LII :> [leading |-> "Ti", creative |-> "Ne"]) @@
  (ESE :> [leading |-> "Fe", creative |-> "Si"]) @@
  (SLE :> [leading |-> "Se", creative |-> "Ti"]) @@
  (IEI :> [leading |-> "Ni", creative |-> "Fe"]) @@
  (LSI :> [leading |-> "Ti", creative |-> "Se"]) @@
  (EIE :> [leading |-> "Fe", creative |-> "Ni"]) @@
  (SEE :> [leading |-> "Se", creative |-> "Fi"]) @@
  (ILI :> [leading |-> "Ni", creative |-> "Te"]) @@
  (ESI :> [leading |-> "Fi", creative |-> "Se"]) @@
  (LIE :> [leading |-> "Te", creative |-> "Ni"]) @@
  (LSE :> [leading |-> "Te", creative |-> "Si"]) @@
  (EII :> [leading |-> "Fi", creative |-> "Ne"]) @@
  (SLI :> [leading |-> "Si", creative |-> "Te"]) @@
  (IEE :> [leading |-> "Ne", creative |-> "Fi"])

\* scrapeTypes (scrape.ts): the record pushed for a code.
scrapeTsType(code) ==
  [code |-> code,
   quadra |-> QUADRA_INFO[code].quadra, temperament |-> QUADRA_INFO[code].temperament,
   leading |-> FUNCTION_INFO[code].leading, creative |-> FUNCTION_INFO[code].creative]

\* DUAL_PAIRS with one code mistyped (ILE for IEE in the last pair).
DUAL_PAIRS_typo ==
  << <<ILE, SEI>>, <<LII, ESE>>, <<SLE, IEI>>, <<LSI, EIE>>,
     <<SEE, ILI>>, <<ESI, LIE>>, <<LSE, EII>>, <<SLI, ILE>> >>

\* Stored in source order; LII-ESE, SLE-IEI, LSI-EIE, SEE-ILI, LSE-EII and
\* SLI-IEE are not in sorted order.
DUAL_PAIRS ==
  << <<ILE, SEI>>, <<LII, ESE>>, <<SLE, IEI>>, <<LSI, EIE>>,
     <<SEE, ILI>>, <<ESI, LIE>>, <<LSE, EII>>, <<SLI, IEE>> >>

\* parseType / scrapeTypeViaMediaWiki: the record written to types.json.
parseType(code) ==
  LET info == TYPE_INFO[code]
  IN  [code |-> code, quadra |-> info.quadra, temperament |-> info.temperament,
       leading |-> info.leading, creative |-> info.creative]

\* for (const code of TYPE_CODES) acc.push(parseType($, code))
RECURSIVE scrapeTypes(_)
scrapeTypes(codes) ==
  IF Len(codes) = 0 THEN <<>>
  ELSE Append(scrapeTypes(SubSeq(codes, 1, Len(codes) - 1)),
              parseType(codes[Len(codes)]))

\* types.json: one record per TYPE_CODES entry, in that order.
types == scrapeTypes(TYPE_CODES)

\* DUAL_PAIRS.map(([a,b]) => ({a, b, name: "Duality", summary}))
RECURSIVE buildRelations(_)
buildRelations(pairs) ==
  IF Len(pairs) = 0 THEN <<>>
  ELSE Append(buildRelations(SubSeq(pairs, 1, Len(pairs) - 1)),
              [a |-> pairs[Len(pairs)][1], b |-> pairs[Len(pairs)][2],
               name |-> "Duality"])

\* relations.json
relations == buildRelations(DUAL_PAIRS)

(* ------------------------------------------------------------------ *)
(* Client helpers                                                      *)
(* ------------------------------------------------------------------ *)

Undefined == [undefined |-> TRUE]

\* Object.fromEntries(types.map(t => [t.code, t])): the last record wins
\* for a repeated code.
RECURSIVE fromEntries(_)
fromEntries(ts) ==
  IF Len(ts) = 0 THEN <<>>
  ELSE (ts[Len(ts)].code :> ts[Len(ts)]) @@ fromEntries(SubSeq(ts, 1, Len(ts) - 1))

byCode == fromEntries(types)

\* byCode[c]
byCodeGet(c) == IF c \in DOMAIN byCode THEN byCode[c] ELSE Undefined

\* relationKey without the sort.
relationKey_unsorted(r) == Join(<<r.a, r.b>>, <<"-">>)

\* [r.a, r.b].sort().join("-")
relationKey(r) == Join(Sort2(r.a, r.b), <<"-">>)

\* new Set(keys): insertion order kept, repeated values dropped.
RECURSIVE NewSet(_)
NewSet(keys) ==
  IF Len(keys) = 0 THEN <<>>
  ELSE LET front == NewSet(SubSeq(keys, 1, Len(keys) - 1))
           last  == keys[Len(keys)]
       IN  IF \E i \in 1..Len(front) : front[i] = last THEN front
           ELSE Append(front, last)

\* set.has(k)
SetHas(set, k) == \E i \in 1..Len(set) : set[i] = k

\* rels.filter(r => r.name === "Duality").map(r => [r.a, r.b].sort().join("-"))
RECURSIVE dualityKeys(_)
dualityKeys(rels) ==
  IF Len(rels) = 0 THEN <<>>
  ELSE LET front == dualityKeys(SubSeq(rels, 1, Len(rels) - 1))
           r     == rels[Len(rels)]
       IN  IF r.name = "Duality" THEN Append(front, relationKey(r)) ELSE front

\* new Set(relations.filter(...).map(...))
DUALS == NewSet(dualityKeys(relations))

(* ------------------------------------------------------------------ *)
(* classifyRelation                                                    *)
(* ------------------------------------------------------------------ *)

\* RELATION_COLORS with Other given the grey of Extinguishment.
RELATION_COLORS_dup ==
  ("Identity" :> "#475569") @@ ("Duality" :> "#16a34a") @@
  ("Activation" :> "#06b6d4") @@ ("Mirror" :> "#6366f1") @@
  ("Semi-duality" :> "#14b8a6") @@ ("Extinguishment" :> "#94a3b8") @@
  ("Conflict" :> "#ef4444") @@ ("Business" :> "#f97316") @@
  ("Super-ego" :> "#eab308") @@ ("Other" :> "#94a3b8")

RELATION_COLORS ==
  ("Identity" :> "#475569") @@ ("Duality" :> "#16a34a") @@
  ("Activation" :> "#06b6d4") @@ ("Mirror" :> "#6366f1") @@
  ("Semi-duality" :> "#14b8a6") @@ ("Extinguishment" :> "#94a3b8") @@
  ("Conflict" :> "#ef4444") @@ ("Business" :> "#f97316") @@
  ("Super-ego" :> "#eab308") @@ ("Other" :> "#64748b")

\* classifyKey without the sort.
classifyKey_unsorted(aType, bType) == Join(<<aType.code, bType.code>>, <<"-">>)

\* const key = [aType.code, bType.code].sort().join('-')
classifyKey(aType, bType) == Join(Sort2(aType.code, bType.code), <<"-">>)

\* isIdentity comparing the leading element instead of the code.
isIdentity_byLeading(aType, bType) == aType.leading = bType.leading

isIdentity(aType, bType) == aType.code = bType.code

\* !!duals && typeof duals.has === 'function' ? duals.has(key) : false
isDual(aType, bType, duals) ==
  IF duals = Undefined THEN FALSE ELSE SetHas(duals, classifyKey(aType, bType))

sameQuadra(aType, bType) == aType.quadra = bType.quadra

sameTemp(aType, bType) == aType.temperament = bType.temperament

sameLead(aType, bType) == aType.leading = bType.leading

sameCreative(aType, bType) == aType.creative = bType.creative

\* activator with || in place of &&.
activator_either(aType, bType) ==
  aType.leading = bType.creative \/ aType.creative = bType.leading

activator(aType, bType) ==
  aType.leading = bType.creative /\ aType.creative = bType.leading

mirror(aType, bType) ==
  sameLead(aType, bType) /\ sameCreative(aType, bType) /\ ~isIdentity(aType, bType)

\* semiDual with only its first disjunct.
semiDual_oneSided(aType, bType) ==
  aType.leading = bType.creative /\ ~activator(aType, bType)

semiDual(aType, bType) ==
  \/ aType.leading = bType.creative /\ ~activator(aType, bType)
  \/ bType.leading = aType.creative /\ ~activator(aType, bType)

quadraOrder == <<"Alpha", "Beta", "Gamma", "Delta">>

\* quadraOrder.indexOf(q): zero-based, -1 when absent
quadraIndexOf(q) ==
  IF \E i \in 1..Len(quadraOrder) : quadraOrder[i] = q
  THEN (CHOOSE i \in 1..Len(quadraOrder) : quadraOrder[i] = q) - 1
  ELSE -1

\* Math.abs(x)
Abs(x) == IF x < 0 THEN -x ELSE x

qd(aType, bType) == Abs(quadraIndexOf(aType.quadra) - quadraIndexOf(bType.quadra))

business(aType, bType, duals) ==
  /\ qd(aType, bType) = 1 \/ qd(aType, bType) = 3
  /\ ~isDual(aType, bType, duals)
  /\ ~semiDual(aType, bType)

\* conflict with the negation of sameQuadra dropped.
conflict_sameQuadra(aType, bType, duals) ==
  /\ qd(aType, bType) = 2
  /\ sameQuadra(aType, bType)
  /\ ~isDual(aType, bType, duals)

conflict(aType, bType, duals) ==
  /\ qd(aType, bType) = 2
  /\ ~sameQuadra(aType, bType)
  /\ ~isDual(aType, bType, duals)

extinguishment(aType, bType) ==
  \/ sameLead(aType, bType) /\ ~isIdentity(aType, bType)
  \/ sameCreative(aType, bType) /\ ~mirror(aType, bType)

\* superEgo with the negation of sameQuadra dropped.
superEgo_anyQuadra(aType, bType, duals) ==
  /\ ~isIdentity(aType, bType)
  /\ ~isDual(aType, bType, duals)
  /\ ~activator(aType, bType)
  /\ ~mirror(aType, bType)
  /\ ~semiDual(aType, bType)
  /\ ~extinguishment(aType, bType)
  /\ ~business(aType, bType, duals)

superEgo(aType, bType, duals) ==
  /\ ~isIdentity(aType, bType)
  /\ ~isDual(aType, bType, duals)
  /\ ~sameQuadra(aType, bType)
  /\ ~activator(aType, bType)
  /\ ~mirror(aType, bType)
  /\ ~semiDual(aType, bType)
  /\ ~extinguishment(aType, bType)
  /\ ~business(aType, bType, duals)

\* The ternary chain with the activator branch labelled after its flag.
relationLabel_flagName(aType, bType, duals) ==
  IF isIdentity(aType, bType) THEN "Identity"
  ELSE IF isDual(aType, bType, duals) THEN "Duality"
  ELSE IF activator(aType, bType) THEN "Activator"
  ELSE IF mirror(aType, bType) THEN "Mirror"
  ELSE IF semiDual(aType, bType) THEN "Semi-duality"
  ELSE IF extinguishment(aType, bType) THEN "Extinguishment"
  ELSE IF conflict(aType, bType, duals) THEN "Conflict"
  ELSE IF business(aType, bType, duals) THEN "Business"
  ELSE IF superEgo(aType, bType, duals) THEN "Super-ego"
  ELSE "Other"

\* The ternary chain that picks the label.
relationLabel(aType, bType, duals) ==
  IF isIdentity(aType, bType) THEN "Identity"
  ELSE IF isDual(aType, bType, duals) THEN "Duality"
  ELSE IF activator(aType, bType) THEN "Activation"
  ELSE IF mirror(aType, bType) THEN "Mirror"
  ELSE IF semiDual(aType, bType) THEN "Semi-duality"
  ELSE IF extinguishment(aType, bType) THEN "Extinguishment"
  ELSE IF conflict(aType, bType, duals) THEN "Conflict"
  ELSE IF business(aType, bType, duals) THEN "Business"
  ELSE IF superEgo(aType, bType, duals) THEN "Super-ego"
  ELSE "Other"

\* RELATION_COLORS[label] || RELATION_COLORS.Other
colorOf(label) ==
  IF label \in DOMAIN RELATION_COLORS THEN RELATION_COLORS[label]
  ELSE RELATION_COLORS["Other"]

classifyRelation(aType, bType, duals) ==
  IF aType = Undefined \/ bType = Undefined
  THEN [key |-> "Other", color |-> RELATION_COLORS["Other"]]
  ELSE LET label == relationLabel(aType, bType, duals)
       IN  [key |-> label, color |-> colorOf(label)]

(* ------------------------------------------------------------------ *)
(* Type page: dual partner lookups                                     *)
(* ------------------------------------------------------------------ *)

\* TypeDetail:
\*   dualPair = Array.from(duals).find(pair => pair.includes(code))
\*   dualCode = dualPair ? dualPair.split("-").find(c => c !== code) : null
typeDetailDualCode(duals, code) ==
  IF \E i \in 1..Len(duals) : Includes(duals[i], code)
  THEN LET dualPair == duals[CHOOSE i \in 1..Len(duals) :
                               /\ Includes(duals[i], code)
                               /\ \A j \in 1..(i-1) : ~Includes(duals[j], code)]
           parts    == Split(dualPair, "-")
       IN  IF \E k \in 1..Len(parts) : parts[k] # code
           THEN parts[CHOOSE k \in 1..Len(parts) :
                        parts[k] # code /\ \A j \in 1..(k-1) : parts[j] = code]
           ELSE Null
  ELSE Null

\* loaders.js fetchType: const info = TYPE_INFO[code]; if (!info) throw
fetchType(code) ==
  IF code \in DOMAIN TYPE_INFO_loaders
  THEN [code |-> code, quadra |-> TYPE_INFO_loaders[code].quadra]
  ELSE [throws |-> "Unknown type code"]

\* TypeDetail: t = byCode[code] ?? types[0]
typeDetailRecord(code) ==
  IF byCodeGet(code) # Undefined THEN byCodeGet(code) ELSE types[1]

\* DualityList carries its own copy of the pair list.
dualityListPairs ==
  << <<ILE, SEI>>, <<LII, ESE>>, <<SLE, IEI>>, <<LSI, EIE>>,
     <<SEE, ILI>>, <<ESI, LIE>>, <<LSE, EII>>, <<SLI, IEE>> >>

\* DualityList:
\*   partner = pairs.find(([a, b]) => a === self || b === self)
\*   other   = partner[0] === self ? partner[1] : partner[0]
dualityListOther(self) ==
  IF \E i \in 1..Len(dualityListPairs) :
       dualityListPairs[i][1] = self \/ dualityListPairs[i][2] = self
  THEN LET partner == dualityListPairs[CHOOSE i \in 1..Len(dualityListPairs) :
             /\ dualityListPairs[i][1] = self \/ dualityListPairs[i][2] = self
             /\ \A j \in 1..(i-1) :
                  dualityListPairs[j][1] # self /\ dualityListPairs[j][2] # self]
       IN  IF partner[1] = self THEN partner[2] ELSE partner[1]
  ELSE Null

(* ------------------------------------------------------------------ *)
(* Hash routing                                                        *)
(* ------------------------------------------------------------------ *)

\* The string literals of the routing code and of the URLs tried below,
\* character by character.
Chars ==
  ("start" :> <<"s","t","a","r","t">>) @@
  ("types" :> <<"t","y","p","e","s">>) @@
  ("relations" :> <<"r","e","l","a","t","i","o","n","s">>) @@
  ("theory" :> <<"t","h","e","o","r","y">>) @@
  ("functions" :> <<"f","u","n","c","t","i","o","n","s">>) @@
  ("library" :> <<"l","i","b","r","a","r","y">>) @@
  ("about" :> <<"a","b","o","u","t">>) @@
  ("type" :> <<"t","y","p","e">>) @@
  ("glossary" :> <<"g","l","o","s","s","a","r","y">>) @@
  ("compare" :> <<"c","o","m","p","a","r","e">>) @@
  ("#/" :> <<"#","/">>) @@
  ("#/start" :> <<"#","/","s","t","a","r","t">>) @@
  ("#/types" :> <<"#","/","t","y","p","e","s">>) @@
  ("#/relations" :> <<"#","/","r","e","l","a","t","i","o","n","s">>) @@
  ("#/theory" :> <<"#","/","t","h","e","o","r","y">>) @@
  ("#/functions" :> <<"#","/","f","u","n","c","t","i","o","n","s">>) @@
  ("#/library" :> <<"#","/","l","i","b","r","a","r","y">>) @@
  ("#/about" :> <<"#","/","a","b","o","u","t">>) @@
  ("#/glossary" :> <<"#","/","g","l","o","s","s","a","r","y">>) @@
  ("#/compare" :> <<"#","/","c","o","m","p","a","r","e">>) @@
  ("#/type/" :> <<"#","/","t","y","p","e","/">>) @@
  ("#/glossary/" :> <<"#","/","g","l","o","s","s","a","r","y","/">>) @@
  ("#/compare/" :> <<"#","/","c","o","m","p","a","r","e","/">>) @@
  ("#/types/LII" :> <<"#","/","t","y","p","e","s","/","L","I","I">>) @@
  ("#/type/lii" :> <<"#","/","t","y","p","e","/","l","i","i">>) @@
  ("#/type/XXX" :> <<"#","/","t","y","p","e","/","X","X","X">>) @@
  ("#/glossary/Te" :> <<"#","/","g","l","o","s","s","a","r","y","/","T","e">>) @@
  ("#/compare/LII/SEI" :> <<"#","/","c","o","m","p","a","r","e","/","L","I","I","/","S","E","I">>) @@
  ("#/compare/LII" :> <<"#","/","c","o","m","p","a","r","e","/","L","I","I">>) @@
  ("#/compare/XXX/YYY" :> <<"#","/","c","o","m","p","a","r","e","/","X","X","X","/","Y","Y","Y">>) @@
  ("#/nowhere" :> <<"#","/","n","o","w","h","e","r","e">>) @@
  ("#relations" :> <<"#","r","e","l","a","t","i","o","n","s">>) @@
  ("#/type//LII" :> <<"#","/","t","y","p","e","/","/","L","I","I">>)

LowerCase ==
  <<"a","b","c","d","e","f","g","h","i","j","k","l","m",
    "n","o","p","q","r","s","t","u","v","w","x","y","z">>

\* s.toUpperCase()
RECURSIVE toUpperCase(_)
toUpperCase(s) ==
  IF Len(s) = 0 THEN <<>>
  ELSE LET c == s[1]
           u == IF \E k \in 1..Len(LowerCase) : LowerCase[k] = c
                THEN Alphabet[CHOOSE k \in 1..Len(LowerCase) : LowerCase[k] = c]
                ELSE c
       IN  <<u>> \o toUpperCase(Tail(s))

\* (hash || "").replace(/^#\/?/, "")
stripHashPrefix(hash) ==
  IF Len(hash) >= 2 /\ hash[1] = "#" /\ hash[2] = "/"
  THEN SubSeq(hash, 3, Len(hash))
  ELSE IF Len(hash) >= 1 /\ hash[1] = "#"
  THEN SubSeq(hash, 2, Len(hash))
  ELSE hash

\* parts.filter(Boolean): the empty string is falsy
RECURSIVE filterBoolean(_)
filterBoolean(parts) ==
  IF Len(parts) = 0 THEN <<>>
  ELSE IF parts[1] = <<>> THEN filterBoolean(Tail(parts))
  ELSE <<parts[1]>> \o filterBoolean(Tail(parts))

\* A route stripped of its undefined fields is a record of its name and of
\* the fields that are set; Field reads a field, undefined as Null.
Field(r, f) == IF f \in DOMAIN r THEN r[f] ELSE Null

\* A route whose name is given by the parsed root: return { name: root }
pageNames ==
  {"start", "types", "relations", "theory", "functions", "library", "about"}

hashToRoute(hash) ==
  LET raw   == stripHashPrefix(hash)
      parts == filterBoolean(Split(raw, "/"))
      root  == IF Len(parts) >= 1 THEN parts[1] ELSE Null
      pa    == IF Len(parts) >= 2 THEN parts[2] ELSE Null
      pb    == IF Len(parts) >= 3 THEN parts[3] ELSE Null
  IN  IF root = Null THEN [name |-> "home"]
      ELSE IF \E n \in pageNames : root = Chars[n]
      THEN [name |-> CHOOSE n \in pageNames : root = Chars[n]]
      ELSE IF root = Chars["type"]
      THEN IF pa # Null THEN [name |-> "type", code |-> toUpperCase(pa)]
           ELSE [name |-> "types"]
      ELSE IF root = Chars["glossary"]
      THEN [name |-> "glossary", focus |-> pa]
      ELSE IF root = Chars["compare"]
      THEN [name |-> "compare",
            a |-> IF pa # Null THEN toUpperCase(pa) ELSE Null,
            b |-> IF pb # Null THEN toUpperCase(pb) ELSE Null]
      ELSE [name |-> "home"]

routeToHash(r) ==
  IF r.name = "home" THEN Chars["#/"]
  ELSE IF r.name = "start" THEN Chars["#/start"]
  ELSE IF r.name = "types" THEN Chars["#/types"]
  ELSE IF r.name = "type"
  THEN IF Field(r, "code") # Null THEN Chars["#/type/"] \o r.code
       ELSE Chars["#/types"]
  ELSE IF r.name = "relations" THEN Chars["#/relations"]
  ELSE IF r.name = "theory" THEN Chars["#/theory"]
  ELSE IF r.name = "functions" THEN Chars["#/functions"]
  ELSE IF r.name = "glossary"
  THEN IF Field(r, "focus") # Null THEN Chars["#/glossary/"] \o r.focus
       ELSE Chars["#/glossary"]
  ELSE IF r.name = "library" THEN Chars["#/library"]
  ELSE IF r.name = "about" THEN Chars["#/about"]
  ELSE IF r.name = "compare"
  THEN IF Field(r, "a") # Null /\ Field(r, "b") # Null
       THEN Chars["#/compare/"] \o r.a \o <<"/">> \o r.b
       ELSE Chars["#/compare"]
  ELSE Chars["#/"]

(* ------------------------------------------------------------------ *)
(* Search                                                              *)
(* ------------------------------------------------------------------ *)

\* TYPE_INFO[code].fullName
FULL_NAME ==
  (ILE :> <<"I","n","t","u","i","t","i","v","e"," ","L","o","g","i","c",
           "a","l"," ","E","x","t","r","a","v","e","r","t">>) @@
  (SEI :> <<"S","e","n","s","i","n","g"," ","E","t","h","i","c","a","l",
           " ","I","n","t","r","o","v","e","r","t">>) @@
  (LII :> <<"L","o","g","i","c","a","l"," ","I","n","t","u","i","t","i",
           "v","e"," ","I","n","t","r","o","v","e","r","t">>) @@
  (ESE :> <<"E","t","h","i","c","a","l"," ","S","e","n","s","i","n","g",
           " ","E","x","t","r","a","v","e","r","t">>) @@
  (SLE :> <<"S","e","n","s","i","n","g"," ","L","o","g","i","c","a","l",
           " ","E","x","t","r","a","v","e","r","t">>) @@
  (IEI :> <<"I","n","t","u","i","t","i","v","e"," ","E","t","h","i","c",
           "a","l"," ","I","n","t","r","o","v","e","r","t">>) @@
  (LSI :> <<"L","o","g","i","c","a","l"," ","S","e","n","s","i","n","g",
           " ","I","n","t","r","o","v","e","r","t">>) @@
  (EIE :> <<"E","t","h","i","c","a","l"," ","I","n","t","u","i","t","i",
           "v","e"," ","E","x","t","r","a","v","e","r","t">>) @@
  (SEE :> <<"S","e","n","s","i","n","g"," ","E","t","h","i","c","a","l",
           " ","E","x","t","r","a","v","e","r","t">>) @@
  (ILI :> <<"I","n","t","u","i","t","i","v","e"," ","L","o","g","i","c",
           "a","l"," ","I","n","t","r","o","v","e","r","t">>) @@
  (ESI :> <<"E","t","h","i","c","a","l"," ","S","e","n","s","i","n","g",
           " ","I","n","t","r","o","v","e","r","t">>) @@
  (LIE :> <<"L","o","g","i","c","a","l"," ","I","n","t","u","i","t","i",
           "v","e"," ","E","x","t","r","a","v","e","r","t">>) @@
  (LSE :> <<"L","o","g","i","c","a","l"," ","S","e","n","s","i","n","g",
           " ","E","x","t","r","a","v","e","r","t">>) @@
  (EII :> <<"E","t","h","i","c","a","l"," ","I","n","t","u","i","t","i",
           "v","e"," ","I","n","t","r","o","v","e","r","t">>) @@
  (SLI :> <<"S","e","n","s","i","n","g"," ","L","o","g","i","c","a","l",
           " ","I","n","t","r","o","v","e","r","t">>) @@
  (IEE :> <<"I","n","t","u","i","t","i","v","e"," ","E","t","h","i","c",
           "a","l"," ","E","x","t","r","a","v","e","r","t">>)

\* TYPE_INFO[code].alias
ALIAS ==
  (ILE :> <<"E","N","T","p">>) @@
  (SEI :> <<"I","S","F","p">>) @@
  (LII :> <<"I","N","T","j">>) @@
  (ESE :> <<"E","S","F","j">>) @@
  (SLE :> <<"E","S","T","p">>) @@
  (IEI :> <<"I","N","F","p">>) @@
  (LSI :> <<"I","S","T","j">>) @@
  (EIE :> <<"E","N","F","j">>) @@
  (SEE :> <<"E","S","F","p">>) @@
  (ILI :> <<"I","N","T","p">>) @@
  (ESI :> <<"I","S","F","j">>) @@
  (LIE :> <<"E","N","T","j">>) @@
  (LSE :> <<"E","S","T","j">>) @@
  (EII :> <<"I","N","F","j">>) @@
  (SLI :> <<"I","S","T","p">>) @@
  (IEE :> <<"E","N","F","p">>)

\* The characters of the quadra, temperament and element labels.
Str ==
  ("Alpha" :> <<"A","l","p","h","a">>) @@
  ("Beta" :> <<"B","e","t","a">>) @@
  ("Gamma" :> <<"G","a","m","m","a">>) @@
  ("Delta" :> <<"D","e","l","t","a">>) @@
  ("EP" :> <<"E","P">>) @@
  ("IJ" :> <<"I","J">>) @@
  ("EJ" :> <<"E","J">>) @@
  ("IP" :> <<"I","P">>) @@
  ("Ne" :> <<"N","e">>) @@
  ("Ni" :> <<"N","i">>) @@
  ("Se" :> <<"S","e">>) @@
  ("Si" :> <<"S","i">>) @@
  ("Te" :> <<"T","e">>) @@
  ("Ti" :> <<"T","i">>) @@
  ("Fe" :> <<"F","e">>) @@
  ("Fi" :> <<"F","i">>)

\* glossary.json: Object.entries(glossaryDefinitions).map(...)
glossary ==
  <<[term |-> <<"N","e">>,
     shortDef |->
       <<"E","x","t","r","o","v","e","r","t","e","d"," ","i","n","t","u",
       "i","t","i","o","n"," ","-"," ","p","o","s","s","i","b","i","l","i",
       "t","i","e","s",","," ","p","a","t","t","e","r","n","s",","," ","d",
       "i","v","e","r","g","e","n","c","e",".">>],
    [term |-> <<"N","i">>,
     shortDef |->
       <<"I","n","t","r","o","v","e","r","t","e","d"," ","i","n","t","u",
       "i","t","i","o","n"," ","-"," ","t","i","m","e",","," ","t","r","a",
       "j","e","c","t","o","r","i","e","s",","," ","c","o","n","v","e","r",
       "g","e","n","c","e",".">>],
    [term |-> <<"S","e">>,
     shortDef |->
       <<"E","x","t","r","o","v","e","r","t","e","d"," ","s","e","n","s",
       "i","n","g"," ","-"," ","f","o","r","c","e",","," ","a","s","s","e",
       "r","t","i","o","n",","," ","c","o","n","t","r","o","l"," ","o","f",
       " ","s","p","a","c","e",".">>],
    [term |-> <<"S","i">>,
     shortDef |->
       <<"I","n","t","r","o","v","e","r","t","e","d"," ","s","e","n","s",
       "i","n","g"," ","-"," ","c","o","m","f","o","r","t",","," ","c","a",
       "l","i","b","r","a","t","i","o","n",","," ","b","o","d","i","l","y",
       " ","s","t","a","t","e","s",".">>],
    [term |-> <<"T","e">>,
     shortDef |->
       <<"E","x","t","r","o","v","e","r","t","e","d"," ","l","o","g","i",
       "c"," ","-"," ","e","f","f","i","c","i","e","n","c","y",","," ","m",
       "e","t","r","i","c","s",","," ","e","x","e","c","u","t","i","o","n",
       ".">>],
    [term |-> <<"T","i">>,
     shortDef |->
       <<"I","n","t","r","o","v","e","r","t","e","d"," ","l","o","g","i",
       "c"," ","-"," ","s","t","r","u","c","t","u","r","e",","," ","d","e",
       "f","i","n","i","t","i","o","n","s",","," ","c","o","n","s","i","s",
       "t","e","n","c","y",".">>],
    [term |-> <<"F","e">>,
     shortDef |->
       <<"E","x","t","r","o","v","e","r","t","e","d"," ","e","t","h","i",
       "c","s"," ","-"," ","s","h","a","r","e","d"," ","f","e","e","l","i",
       "n","g",","," ","e","x","p","r","e","s","s","i","o","n",","," ","m",
       "o","r","a","l","e",".">>],
    [term |-> <<"F","i">>,
     shortDef |->
       <<"I","n","t","r","o","v","e","r","t","e","d"," ","e","t","h","i",
       "c","s"," ","-"," ","b","o","n","d","s",","," ","v","a","l","u","e",
       "s",","," ","p","e","r","s","o","n","a","l"," ","d","i","s","t","a",
       "n","c","e",".">>] >>

\* s.toLowerCase()
RECURSIVE toLowerCase(_)
toLowerCase(s) ==
  IF Len(s) = 0 THEN <<>>
  ELSE LET c == s[1]
           l == IF \E k \in 1..Len(Alphabet) : Alphabet[k] = c
                THEN LowerCase[CHOOSE k \in 1..Len(Alphabet) : Alphabet[k] = c]
                ELSE c
       IN  <<l>> \o toLowerCase(Tail(s))

\* s.trim(): white space removed at both ends
RECURSIVE trim(_)
trim(s) ==
  IF Len(s) = 0 THEN s
  ELSE IF s[1] = " " THEN trim(Tail(s))
  ELSE IF s[Len(s)] = " " THEN trim(SubSeq(s, 1, Len(s) - 1))
  ELSE s

\* arr.slice(from, to)
slice(arr, from, to) ==
  SubSeq(arr, from + 1, IF to < Len(arr) THEN to ELSE Len(arr))

\* The types.json record of a type with its fullName and alias, the fields
\* as strings.
typeRecord(t) ==
  [code |-> t.code, fullName |-> FULL_NAME[t.code], alias |-> ALIAS[t.code],
   quadra |-> Str[t.quadra], temperament |-> Str[t.temperament],
   leading |-> Str[t.leading], creative |-> Str[t.creative]]

\* buildSearchEntries / the search.json loop of scrapeAll: one entry per
\* type, then one per glossary term, each with its lower-cased haystack.
RECURSIVE typeEntries(_)
typeEntries(ts) ==
  IF Len(ts) = 0 THEN <<>>
  ELSE LET t == typeRecord(ts[1])
           hay == toLowerCase(Join(<<t.code, t.fullName, t.alias, t.quadra,
                                     t.temperament, t.leading, t.creative>>,
                                   <<" ">>))
       IN  <<[kind |-> "type", id |-> t.code, haystack |-> hay]>>
           \o typeEntries(Tail(ts))

RECURSIVE glossEntries(_)
glossEntries(gs) ==
  IF Len(gs) = 0 THEN <<>>
  ELSE LET g == gs[1]
           hay == toLowerCase(Join(<<g.term, g.shortDef>>, <<" ">>))
       IN  <<[kind |-> "gloss", id |-> g.term, haystack |-> hay]>>
           \o glossEntries(Tail(gs))

buildSearchEntries(ts, gs) == typeEntries(ts) \o glossEntries(gs)

\* search.json as served to the client.
searchIndex == buildSearchEntries(types, glossary)

\* search.filter((e) => e.haystack && e.haystack.includes(q))
RECURSIVE filterIndex(_, _)
filterIndex(entries, q) ==
  IF Len(entries) = 0 THEN <<>>
  ELSE (IF entries[1].haystack # <<>> /\ Includes(entries[1].haystack, q)
        THEN <<[kind |-> entries[1].kind, id |-> entries[1].id]>>
        ELSE <<>>)
       \o filterIndex(Tail(entries), q)

\* types.filter((t) => [code, fullName, alias, quadra, leading,
\* creative].some((v) => v.toLowerCase().includes(q))).map(...)
RECURSIVE fromTypes(_, _)
fromTypes(ts, q) ==
  IF Len(ts) = 0 THEN <<>>
  ELSE LET t == typeRecord(ts[1])
           fields == <<t.code, t.fullName, t.alias, t.quadra, t.leading,
                       t.creative>>
       IN  (IF \E i \in 1..Len(fields) : Includes(toLowerCase(fields[i]), q)
            THEN <<[kind |-> "type", id |-> t.code]>>
            ELSE <<>>)
           \o fromTypes(Tail(ts), q)

\* glossary.filter((g) => [term, shortDef].some(...)).map(...)
RECURSIVE fromGloss(_, _)
fromGloss(gs, q) ==
  IF Len(gs) = 0 THEN <<>>
  ELSE (IF \/ Includes(toLowerCase(gs[1].term), q)
           \/ Includes(toLowerCase(gs[1].shortDef), q)
        THEN <<[kind |-> "gloss", id |-> gs[1].term]>>
        ELSE <<>>)
       \o fromGloss(Tail(gs), q)

\* A search that compares the text as typed with the lower-cased fields.
searchResults_caseSensitive(text, hasIndex) ==
  LET q == trim(text)
  IN  IF q = <<>> THEN <<>>
      ELSE IF hasIndex THEN slice(filterIndex(searchIndex, q), 0, 10)
      ELSE slice(fromTypes(types, q) \o fromGloss(glossary, q), 0, 10)

\* The results useMemo of WikisocionMVP (the data is loaded); hasIndex tells
\* whether search.json has arrived.
searchResults(text, hasIndex) ==
  LET q == toLowerCase(trim(text))
  IN  IF q = <<>> THEN <<>>
      ELSE IF hasIndex THEN slice(filterIndex(searchIndex, q), 0, 10)
      ELSE slice(fromTypes(types, q) \o fromGloss(glossary, q), 0, 10)

(* ------------------------------------------------------------------ *)
(* State                                                               *)
(* ------------------------------------------------------------------ *)

VARIABLES
  route,      \* WikisocionMVP: the route state, {name, code?}
  a,          \* Relations: selected Type A code
  b,          \* Relations: selected Type B code
  relInfo,    \* Relations: {key, color} shown in the hero chip
  ribbons,    \* RadialRelations: relation of Type A to every other node
  dualCode,   \* TypeDetail: dual partner found through the dual set
  other,      \* DualityList: dual partner found through its pair list
  detail,     \* TypeDetail: code of the record t the page shows
  hash,       \* window.location.hash
  pending,    \* hashchange events queued and not yet delivered
  typeA,      \* TypeCompare: selected Type A code
  typeB,      \* TypeCompare: selected Type B code
  crashed,    \* a render has thrown and React has unmounted the app
  query,      \* WikisocionMVP: the text of the search box
  indexed,    \* useData: search.json has arrived (data.search is set)
  results,    \* WikisocionMVP: the results memo, [kind, id] per entry
  selected,   \* TopBar: index of the highlighted result
  opened,     \* the item last passed to onResult and the one highlighted then
  source,     \* scrapeAll: the --source mode of the run
  usedSource, \* scrapeAll: the source the types were finally taken from
  pc,         \* scrapeAll: the statement the run has reached
  codeIdx,    \* scrapeAll: index in TYPE_CODES of the page being fetched
  attempt,    \* fetchWithRetry: attempts made for the page being fetched
  acc,        \* scrapeAll: records collected by the loop in progress
  scraped,    \* scrapeAll: its `types` array
  files,      \* OUT_DIR: the files written by the run, in order
  exitCode,   \* the scraper's exit code <<n>>, Null while it runs
  thrown,     \* the sources for which a fetchWithRetry call has thrown
  inflight,   \* the HTTP requests sent and not yet settled
  awaiting,   \* scrapeAll is suspended at `await fetch(...)`
  fpc,        \* fetchWithRetry: where the call stands
  fattempt,   \* fetchWithRetry: its `attempt` counter
  retriesOpt, \* fetchWithRetry: the `retries` option of the call
  timers,     \* setTimeout: the abort timers armed and not yet cleared
  abortLog,   \* controller.abort() calls: the timer and the attempt running
  nreq,       \* fetch(url, ...) calls issued by the call
  now,        \* the clock, ms
  startedAt,  \* when the attempt in progress was started
  wakeAt,     \* when the delay in progress resolves
  failedAt,   \* when the last failed attempt failed
  waits,      \* the delay(ms) calls of the call, in order
  data,       \* useData: the state of the hook
  loads,      \* useData: how each fetch of the hook has settled
  handled,    \* useData: the promise chains whose handler has run
  localPc,    \* fetchLocalData: the await the call stands at
  localLoads, \* fetchLocalData: how each of its fetches has settled
  localMeta,  \* fetchLocalData: its metaJson
  localResult, \* fetchLocalData: the value it resolved with
  livePc,     \* fetchLiveWikisocionData: pending, resolved or rejected
  liveLoads,  \* fetchLiveWikisocionData: how each fetchType has settled
  liveResult  \* fetchLiveWikisocionData: the types it resolved with

\* The client's page state and the scraper's run state.
appVars == <<route, a, b, relInfo, ribbons, dualCode, other, detail>>
routeVars == <<hash, pending, typeA, typeB, crashed>>
searchVars == <<query, indexed, results, selected, opened>>
scrapeVars ==
  <<source, usedSource, pc, codeIdx, attempt, acc, scraped, files, exitCode,
    thrown, inflight, awaiting>>

fetchVars ==
  <<fpc, fattempt, retriesOpt, timers, abortLog, nreq, now, startedAt,
    wakeAt, failedAt, waits>>
loadVars == <<data, loads, handled>>
localVars == <<localPc, localLoads, localMeta, localResult>>
liveVars == <<livePc, liveLoads, liveResult>>
dataVars == <<loadVars, localVars, liveVars>>
ioVars == <<fetchVars, dataVars>>

vars == <<appVars, scrapeVars, routeVars, searchVars, ioVars>>

\* The codes the <select> elements, the type index and the search results
\* offer: one per record of the dataset.
Codes == {types[i].code : i \in 1..Len(types)}

\* Relations render: the hero chip classifies the selected pair.
renderRelInfo(x, y) == classifyRelation(byCodeGet(x), byCodeGet(y), DUALS)

\* RadialRelations render: nodes.slice(1) are all types but activeA, each
\* classified against aNode.
renderRibbons(x) ==
  [n \in Codes \ {x} |-> classifyRelation(byCodeGet(x), byCodeGet(n), DUALS)]

\* State of a component that is not mounted: Relations and TypeDetail are
\* rendered only under their own route and lose their state when the route
\* changes.
NoRelInfo == [key |-> "", color |-> ""]
RelationsUnmounted ==
  /\ a' = Null
  /\ b' = Null
  /\ relInfo' = NoRelInfo
  /\ ribbons' = <<>>
TypeDetailUnmounted ==
  /\ dualCode' = Null
  /\ other' = Null
  /\ detail' = Null

\* useState(() => hashToRoute(window.location.hash)) with an empty hash.
AppInit ==
  /\ route = [name |-> "home"]
  /\ a = Null
  /\ b = Null
  /\ relInfo = NoRelInfo
  /\ ribbons = <<>>
  /\ dualCode = Null
  /\ other = Null
  /\ detail = Null

\* The URL is left alone: an empty hash, no event queued, no compare page.
RouteIdle ==
  /\ hash = <<>>
  /\ pending = 0
  /\ typeA = Null
  /\ typeB = Null
  /\ crashed = FALSE

\* No scraper run: the client is served a dataset written earlier.
ScrapeIdle ==
  /\ source = "auto"
  /\ usedSource = "auto"
  /\ pc = "idle"
  /\ codeIdx = 0
  /\ attempt = 0
  /\ acc = <<>>
  /\ scraped = <<>>
  /\ files = <<>>
  /\ exitCode = Null
  /\ thrown = {}
  /\ inflight = <<>>
  /\ awaiting = FALSE

\* No fetchWithRetry call is being followed.
FetchIdle ==
  /\ fpc = "idle"
  /\ fattempt = 0
  /\ retriesOpt = 0
  /\ timers = {}
  /\ abortLog = {}
  /\ nreq = 0
  /\ now = 0
  /\ startedAt = 0
  /\ wakeAt = 0
  /\ failedAt = 0
  /\ waits = <<>>

\* The files useData fetches.
CORE_FILES == {"types.json", "glossary.json", "relations.json"}
OPTIONAL_FILES == {"meta.json", "search.json"}

\* useState({ types: null, ..., search: null, error: null })
NoData ==
  [types |-> Null, glossary |-> Null, relations |-> Null, meta |-> Null,
   search |-> Null, error |-> Null]

\* The hook is not followed: nothing was fetched.
LoadIdle ==
  /\ data = NoData
  /\ loads = [f \in CORE_FILES \cup OPTIONAL_FILES |-> "idle"]
  /\ handled = {}

\* fetchLocalData has not been called.
LocalIdle ==
  /\ localPc = "idle"
  /\ localLoads = [f \in CORE_FILES \cup OPTIONAL_FILES |-> "idle"]
  /\ localMeta = Null
  /\ localResult = Null

\* fetchLiveWikisocionData has not been called.
LiveIdle ==
  /\ livePc = "idle"
  /\ liveLoads = <<>>
  /\ liveResult = Null

DataIdle == LoadIdle /\ LocalIdle /\ LiveIdle

IoIdle == FetchIdle /\ DataIdle

\* The search box is empty and search.json has not arrived.
SearchIdle ==
  /\ query = <<>>
  /\ indexed = FALSE
  /\ results = <<>>
  /\ selected = 0
  /\ opened = Null

Init ==
  /\ AppInit
  /\ ScrapeIdle
  /\ RouteIdle
  /\ SearchIdle
  /\ IoIdle

\* navigate("home"): TopBar logo.
navigateHome ==
  /\ route' = [name |-> "home"]
  /\ RelationsUnmounted
  /\ TypeDetailUnmounted
  /\ UNCHANGED <<scrapeVars, routeVars, searchVars, ioVars>>

\* navigate("relations"): Relations mounts with useState("ILE") and
\* useState("SEI").  Navigating to the route already shown keeps the
\* mounted component and its state.
navigateRelations ==
  /\ route' = [name |-> "relations"]
  /\ IF route.name = "relations"
     THEN UNCHANGED <<a, b, relInfo, ribbons>>
     ELSE /\ a' = ILE
          /\ b' = SEI
          /\ relInfo' = renderRelInfo(ILE, SEI)
          /\ ribbons' = renderRibbons(ILE)
  /\ TypeDetailUnmounted
  /\ UNCHANGED <<scrapeVars, routeVars, searchVars, ioVars>>

\* <Select label="Type A" ... setValue={setA}>
setA(c) ==
  /\ route.name = "relations"
  /\ a' = c
  /\ relInfo' = renderRelInfo(c, b)
  /\ ribbons' = renderRibbons(c)
  /\ UNCHANGED <<route, b, dualCode, other, detail>>
  /\ UNCHANGED <<scrapeVars, routeVars, searchVars, ioVars>>

\* <Select label="Type B" ... setValue={setB}>
setB(c) ==
  /\ route.name = "relations"
  /\ b' = c
  /\ relInfo' = renderRelInfo(a, c)
  /\ UNCHANGED <<route, a, ribbons, dualCode, other, detail>>
  /\ UNCHANGED <<scrapeVars, routeVars, searchVars, ioVars>>

\* RadialRelations node click: onClick={() => !isA && onSelectB(n.t.code)}
onSelectB(c) ==
  /\ route.name = "relations"
  /\ c # a
  /\ b' = c
  /\ relInfo' = renderRelInfo(a, c)
  /\ UNCHANGED <<route, a, ribbons, dualCode, other, detail>>
  /\ UNCHANGED <<scrapeVars, routeVars, searchVars, ioVars>>

\* navigate("type", { code }) from the type index or a search result; the
\* type page renders for that code.
openType(c) ==
  /\ route' = [name |-> "type", code |-> c]
  /\ dualCode' = typeDetailDualCode(DUALS, c)
  /\ other' = dualityListOther(typeDetailRecord(c).code)
  /\ detail' = typeDetailRecord(c).code
  /\ RelationsUnmounted
  /\ UNCHANGED <<scrapeVars, routeVars, searchVars, ioVars>>

Next ==
  \/ navigateHome
  \/ navigateRelations
  \/ \E c \in Codes : setA(c)
  \/ \E c \in Codes : setB(c)
  \/ \E c \in Codes : onSelectB(c)
  \/ \E c \in Codes : openType(c)

Spec == Init /\ [][Next]_vars

(* ------------------------------------------------------------------ *)
(* The scraper run: scripts/scrape.mjs                                 *)
(* ------------------------------------------------------------------ *)

\* fetchWithRetry(url, { timeoutMs = 8000, retries = 2 } = {})
retries == 2

\* --source=github | mediawiki | anything else (auto, the default)
SourceModes == {"github", "mediawiki", "auto"}

\* The files scrapeAll writes, in the order of its writeFile calls.
OUT_FILES ==
  <<"types.json", "relations.json", "glossary.json", "search.json",
    "meta.json">>

\* scrapeTypeViaMediaWiki: the TYPE_INFO fields and an href on the wiki.
scrapeTypeViaMediaWiki(code) ==
  LET info == TYPE_INFO[code]
  IN  [code |-> code, quadra |-> info.quadra, temperament |-> info.temperament,
       leading |-> info.leading, creative |-> info.creative,
       href |-> "MW_PAGE_BASE"]

\* typesFromGitHub: acc.push(parseType($, code)), href on the GitHub pages.
typeFromGitHub(code) ==
  LET info == TYPE_INFO[code]
  IN  [code |-> code, quadra |-> info.quadra, temperament |-> info.temperament,
       leading |-> info.leading, creative |-> info.creative,
       href |-> "wikisocion.github.io"]

\* The console.assert calls before the first writeFile.
smokeTests(ts, rels) ==
  /\ Len(ts) = 16
  /\ Cardinality({ts[i].code : i \in 1..Len(ts)}) = 16
  /\ Len(rels) = 8
  /\ \A i \in 1..Len(DUAL_PAIRS) :
       /\ \E k \in 1..Len(TYPE_CODES) : TYPE_CODES[k] = DUAL_PAIRS[i][1]
       /\ \E k \in 1..Len(TYPE_CODES) : TYPE_CODES[k] = DUAL_PAIRS[i][2]

\* A meta.json that names the source asked for, not the one used.
fileData_bySource(name) ==
  IF name = "types.json" THEN scraped
  ELSE IF name = "relations.json" THEN relations
  ELSE IF name = "meta.json"
       THEN [types |-> IF source = "mediawiki" THEN "MW_API"
                       ELSE "wikisocion.github.io"]
  ELSE <<>>

\* The content of each written file, as far as the run determines it.
fileData(name) ==
  IF name = "types.json" THEN scraped
  ELSE IF name = "relations.json" THEN relations
  ELSE IF name = "meta.json"
       THEN [types |-> IF usedSource = "mediawiki" THEN "MW_API"
                       ELSE "wikisocion.github.io"]
  ELSE <<>>

\* The run has entered its first fetch loop.
InitScrape ==
  /\ AppInit
  /\ RouteIdle
  /\ SearchIdle
  /\ IoIdle
  /\ source \in SourceModes
  /\ usedSource = source
  /\ pc = IF source = "github" THEN "github" ELSE "mediawiki"
  /\ codeIdx = 1
  /\ attempt = 0
  /\ acc = <<>>
  /\ scraped = <<>>
  /\ files = <<>>
  /\ exitCode = Null
  /\ thrown = {}
  /\ inflight = <<>>
  /\ awaiting = FALSE

Fetching == pc \in {"mediawiki", "github"}

\* The request for the page of a code.
pageRequest == [source |-> pc, code |-> TYPE_CODES[codeIdx]]

\* A loop that goes on without awaiting its fetch.
sendRequest_noAwait ==
  /\ Fetching
  /\ inflight' = Append(inflight, pageRequest)
  /\ UNCHANGED <<source, usedSource, pc, codeIdx, attempt, acc, scraped,
                 files, exitCode, thrown, awaiting>>
  /\ UNCHANGED <<appVars, routeVars, searchVars, ioVars>>

\* await fetch(url, ...) in fetchWithRetry, called through load(url) or
\* mwGet(params) for the code the loop stands at.
sendRequest ==
  /\ Fetching
  /\ ~awaiting
  /\ inflight' = Append(inflight, pageRequest)
  /\ awaiting' = TRUE
  /\ UNCHANGED <<source, usedSource, pc, codeIdx, attempt, acc, scraped,
                 files, exitCode, thrown>>
  /\ UNCHANGED <<appVars, routeVars, searchVars, ioVars>>

\* The awaited fetch settles: it resolved, rejected or was aborted.
requestOver ==
  /\ awaiting
  /\ awaiting' = FALSE
  /\ inflight' = Tail(inflight)

\* fetchWithRetry: an attempt fails (network error, timeout or !res.ok)
\* and attempt > retries + 1 is false: back off and try again.
fetchRetry ==
  /\ Fetching
  /\ requestOver
  /\ ~(attempt + 1 > retries + 1)
  /\ attempt' = attempt + 1
  /\ UNCHANGED <<source, usedSource, pc, codeIdx, acc, scraped, files,
                 exitCode, thrown>>
  /\ UNCHANGED <<appVars, routeVars, searchVars, ioVars>>

\* A catch block that falls back without a fresh acc.
fallBackToGitHub_keepAcc ==
  /\ usedSource' = "github"
  /\ pc' = "github"
  /\ codeIdx' = 1
  /\ attempt' = 0
  /\ UNCHANGED <<source, acc, scraped, files, exitCode>>

\* The catch block of the mediawiki and auto branches: start over from the
\* GitHub pages with a fresh acc.
fallBackToGitHub ==
  /\ usedSource' = "github"
  /\ pc' = "github"
  /\ codeIdx' = 1
  /\ attempt' = 0
  /\ acc' = <<>>
  /\ UNCHANGED <<source, scraped, files, exitCode>>

\* fetchWithRetry throws "Failed to fetch" inside scrapeTypeViaMediaWiki.
fetchThrowsMediaWiki ==
  /\ pc = "mediawiki"
  /\ requestOver
  /\ attempt + 1 > retries + 1
  /\ fallBackToGitHub
  /\ thrown' = thrown \cup {"mediawiki"}
  /\ UNCHANGED <<appVars, routeVars, searchVars, ioVars>>

\* The fetch succeeded but mwGet found json.error, or the page has no
\* parse.text: "MediaWiki API error" / "No parse for".
mediaWikiError ==
  /\ pc = "mediawiki"
  /\ requestOver
  /\ fallBackToGitHub
  /\ UNCHANGED thrown
  /\ UNCHANGED <<appVars, routeVars, searchVars, ioVars>>

\* A loop that logs the failed page and goes on to the next one.
fetchThrowsGitHub_skipPage ==
  /\ pc = "github"
  /\ requestOver
  /\ attempt + 1 > retries + 1
  /\ attempt' = 0
  /\ thrown' = thrown \cup {"github"}
  /\ IF codeIdx = Len(TYPE_CODES)
     THEN scraped' = acc /\ pc' = "write" /\ UNCHANGED codeIdx
     ELSE codeIdx' = codeIdx + 1 /\ UNCHANGED <<scraped, pc>>
  /\ UNCHANGED <<source, usedSource, acc, files, exitCode>>
  /\ UNCHANGED <<appVars, routeVars, searchVars, ioVars>>

\* fetchWithRetry throws "Failed to fetch" inside typesFromGitHub: nothing
\* catches it, scrapeAll rejects and the process exits with code 1.
fetchThrowsGitHub ==
  /\ pc = "github"
  /\ requestOver
  /\ attempt + 1 > retries + 1
  /\ attempt' = attempt + 1
  /\ pc' = "failed"
  /\ exitCode' = <<1>>
  /\ thrown' = thrown \cup {"github"}
  /\ UNCHANGED <<source, usedSource, codeIdx, acc, scraped, files>>
  /\ UNCHANGED <<appVars, routeVars, searchVars, ioVars>>

\* An attempt succeeds: the record is pushed; after the last code the loop
\* ends, types = acc, and the run goes on to the assertions and the writes.
pageScraped ==
  /\ Fetching
  /\ requestOver
  /\ LET t == IF pc = "mediawiki"
              THEN scrapeTypeViaMediaWiki(TYPE_CODES[codeIdx])
              ELSE typeFromGitHub(TYPE_CODES[codeIdx])
     IN  /\ acc' = Append(acc, t)
         /\ IF codeIdx = Len(TYPE_CODES)
            THEN /\ scraped' = Append(acc, t)
                 /\ usedSource' = IF pc = "mediawiki" /\ source = "auto"
                                  THEN "mediawiki" ELSE usedSource
                 /\ pc' = "write"
                 /\ UNCHANGED codeIdx
            ELSE /\ codeIdx' = codeIdx + 1
                 /\ UNCHANGED <<scraped, usedSource, pc>>
  /\ attempt' = 0
  /\ UNCHANGED <<source, files, exitCode, thrown>>
  /\ UNCHANGED <<appVars, routeVars, searchVars, ioVars>>

\* await fs.writeFile(...), five times; after meta.json the run returns.
writeFile ==
  /\ pc = "write"
  /\ LET name == OUT_FILES[Len(files) + 1]
     IN  files' = Append(files, [name |-> name, data |-> fileData(name)])
  /\ IF Len(files) + 1 = Len(OUT_FILES)
     THEN pc' = "done" /\ exitCode' = <<0>>
     ELSE UNCHANGED <<pc, exitCode>>
  /\ UNCHANGED <<source, usedSource, codeIdx, attempt, acc, scraped, thrown,
                 inflight, awaiting>>
  /\ UNCHANGED <<appVars, routeVars, searchVars, ioVars>>

NextScrape ==
  \/ sendRequest
  \/ fetchRetry
  \/ fetchThrowsMediaWiki
  \/ mediaWikiError
  \/ fetchThrowsGitHub
  \/ pageScraped
  \/ writeFile

SpecScrape == InitScrape /\ [][NextScrape]_vars

(* ------------------------------------------------------------------ *)
(* One fetchWithRetry call: attempts, abort timers, backoff            *)
(* ------------------------------------------------------------------ *)

\* fetchWithRetry(url, { timeoutMs = 8000, retries = 2 } = {})
timeoutMs == 8000

\* The values of the retries option followed here, the default among them.
RetryOptions == 0..retries

\* The clock stops here.
MaxNow == 9600

\* fetchWithRetry has been called and stands before its loop.
InitFetch ==
  /\ AppInit
  /\ ScrapeIdle
  /\ RouteIdle
  /\ SearchIdle
  /\ DataIdle
  /\ fpc = "ready"
  /\ fattempt = 0
  /\ retriesOpt \in RetryOptions
  /\ timers = {}
  /\ abortLog = {}
  /\ nreq = 0
  /\ now = 0
  /\ startedAt = 0
  /\ wakeAt = 0
  /\ failedAt = 0
  /\ waits = <<>>

\* A loop head that does not await its delay.
startAttempt_early ==
  /\ fpc = "ready" \/ fpc = "backoff"
  /\ fattempt' = fattempt + 1
  /\ timers' = timers \cup {[attempt |-> fattempt + 1, due |-> now + timeoutMs]}
  /\ nreq' = nreq + 1
  /\ startedAt' = now
  /\ fpc' = "fetching"
  /\ UNCHANGED <<retriesOpt, abortLog, now, wakeAt, failedAt, waits>>
  /\ UNCHANGED <<appVars, scrapeVars, routeVars, searchVars, dataVars>>

\* The head of the loop, on entry and when the delay has resolved:
\* attempt++, a fresh controller, setTimeout(abort, timeoutMs), fetch(...).
startAttempt ==
  /\ fpc = "ready" \/ (fpc = "backoff" /\ now >= wakeAt)
  /\ fattempt' = fattempt + 1
  /\ timers' = timers \cup {[attempt |-> fattempt + 1, due |-> now + timeoutMs]}
  /\ nreq' = nreq + 1
  /\ startedAt' = now
  /\ fpc' = "fetching"
  /\ UNCHANGED <<retriesOpt, abortLog, now, wakeAt, failedAt, waits>>
  /\ UNCHANGED <<appVars, scrapeVars, routeVars, searchVars, dataVars>>

\* clearTimeout(t) for the attempt in progress.
clearTimeout(ts) == {t \in ts : t.attempt # fattempt}

\* The response is ok: clearTimeout(t); return res.
responseOk ==
  /\ fpc = "fetching"
  /\ timers' = clearTimeout(timers)
  /\ fpc' = "returned"
  /\ UNCHANGED <<fattempt, retriesOpt, abortLog, nreq, now, startedAt,
                 wakeAt, failedAt, waits>>
  /\ UNCHANGED <<appVars, scrapeVars, routeVars, searchVars, dataVars>>

\* A catch block that leaves the timer armed.
catch_noClear(ts) ==
  /\ timers' = ts
  /\ failedAt' = now
  /\ IF fattempt > retriesOpt + 1
     THEN fpc' = "threw" /\ UNCHANGED <<wakeAt, waits>>
     ELSE /\ fpc' = "backoff"
          /\ wakeAt' = now + 400 * fattempt
          /\ waits' = Append(waits, 400 * fattempt)

\* catch (e): clearTimeout(t); throw when attempt > retries + 1, otherwise
\* await delay(400 * attempt). ts are the timers armed when it runs.
catch(ts) ==
  /\ timers' = clearTimeout(ts)
  /\ failedAt' = now
  /\ IF fattempt > retriesOpt + 1
     THEN fpc' = "threw" /\ UNCHANGED <<wakeAt, waits>>
     ELSE /\ fpc' = "backoff"
          /\ wakeAt' = now + 400 * fattempt
          /\ waits' = Append(waits, 400 * fattempt)

\* fetch rejects (network error) or the response is not ok (HTTP status).
attemptFails ==
  /\ fpc = "fetching"
  /\ catch(timers)
  /\ UNCHANGED <<fattempt, retriesOpt, abortLog, nreq, now, startedAt>>
  /\ UNCHANGED <<appVars, scrapeVars, routeVars, searchVars, dataVars>>

\* An abort timer is due: controller.abort() on the controller of its own
\* attempt. If that attempt is the one in progress its fetch rejects and the
\* catch block runs.
timerFires(t) ==
  /\ t \in timers
  /\ now >= t.due
  /\ abortLog' = abortLog \cup {[timer |-> t.attempt, running |-> fattempt]}
  /\ IF fpc = "fetching" /\ t.attempt = fattempt
     THEN catch(timers \ {t})
     ELSE /\ timers' = timers \ {t}
          /\ UNCHANGED <<fpc, wakeAt, failedAt, waits>>
  /\ UNCHANGED <<fattempt, retriesOpt, nreq, now, startedAt>>
  /\ UNCHANGED <<appVars, scrapeVars, routeVars, searchVars, dataVars>>

\* 400 ms pass while the call awaits its fetch or its delay; a timer or a
\* delay that is due runs first.
tick ==
  /\ fpc \in {"fetching", "backoff"}
  /\ now < MaxNow
  /\ \A t \in timers : now < t.due
  /\ fpc = "backoff" => now < wakeAt
  /\ now' = now + 400
  /\ UNCHANGED <<fpc, fattempt, retriesOpt, timers, abortLog, nreq,
                 startedAt, wakeAt, failedAt, waits>>
  /\ UNCHANGED <<appVars, scrapeVars, routeVars, searchVars, dataVars>>

\* The timers a call can have armed.
AllTimers ==
  {[attempt |-> k, due |-> 400 * n + timeoutMs] :
     k \in 1..(retries + 2), n \in 0..((MaxNow \div 400) + 1)}

NextFetch ==
  \/ startAttempt
  \/ responseOk
  \/ attemptFails
  \/ \E t \in AllTimers : timerFires(t)
  \/ tick

SpecFetch == InitFetch /\ [][NextFetch]_vars

(* ------------------------------------------------------------------ *)
(* The data hook: useData                                              *)
(* ------------------------------------------------------------------ *)

\* Everything but the state of the hook.
notLoadVars ==
  <<appVars, scrapeVars, routeVars, searchVars, fetchVars, localVars,
    liveVars>>

\* The parsed meta.json.
metaJson == [sources |-> [types |-> "wikisocion.github.io"]]

\* The parsed content of a core file.
coreJson(f) ==
  IF f = "types.json" THEN types
  ELSE IF f = "glossary.json" THEN glossary
  ELSE relations

\* The effect has run: the five fetches are under way.
InitLoad ==
  /\ AppInit
  /\ ScrapeIdle
  /\ RouteIdle
  /\ SearchIdle
  /\ FetchIdle
  /\ LocalIdle
  /\ LiveIdle
  /\ data = NoData
  /\ loads = [f \in CORE_FILES \cup OPTIONAL_FILES |-> "pending"]
  /\ handled = {}

\* fetch(f).then(r => r.json()) of the Promise.all settles: the JSON is
\* there ("ok"), or the request or the parse failed.
coreFileSettles(f, outcome) ==
  /\ loads[f] = "pending"
  /\ loads' = [loads EXCEPT ![f] = outcome]
  /\ UNCHANGED <<data, handled>>
  /\ UNCHANGED notLoadVars

\* A handler that sets the core data alone.
coreThen_replace ==
  /\ "core" \notin handled
  /\ \A f \in CORE_FILES : loads[f] = "ok"
  /\ data' = [NoData EXCEPT !.types = coreJson("types.json"),
                             !.glossary = coreJson("glossary.json"),
                             !.relations = coreJson("relations.json")]
  /\ handled' = handled \cup {"core"}
  /\ UNCHANGED loads
  /\ UNCHANGED notLoadVars

\* Promise.all resolved: setData((d) => ({ ...d, types, glossary,
\* relations, error: null }))
coreThen ==
  /\ "core" \notin handled
  /\ \A f \in CORE_FILES : loads[f] = "ok"
  /\ data' = [data EXCEPT !.types = coreJson("types.json"),
                          !.glossary = coreJson("glossary.json"),
                          !.relations = coreJson("relations.json"),
                          !.error = Null]
  /\ handled' = handled \cup {"core"}
  /\ UNCHANGED loads
  /\ UNCHANGED notLoadVars

\* Promise.all rejected, at its first failed file: setData({ types: null,
\* ..., search: null, error: err.message })
coreCatch ==
  /\ "core" \notin handled
  /\ \E f \in CORE_FILES : loads[f] = "failed"
  /\ data' = [NoData EXCEPT !.error = <<"err.message">>]
  /\ handled' = handled \cup {"core"}
  /\ UNCHANGED loads
  /\ UNCHANGED notLoadVars

\* The chain of meta.json runs to its end: r.ok and a truthy JSON ("ok")
\* gives setData((d) => ({ ...d, meta })); a response that is not ok or a
\* falsy JSON ("unusable") and a rejection ("failed") change nothing.
metaSettles(outcome) ==
  /\ loads["meta.json"] = "pending"
  /\ loads' = [loads EXCEPT !["meta.json"] = outcome]
  /\ data' = IF outcome = "ok" THEN [data EXCEPT !.meta = metaJson] ELSE data
  /\ handled' = handled \cup {"meta"}
  /\ UNCHANGED notLoadVars

\* The chain of search.json runs to its end: r.ok and an entries array
\* ("ok") gives setData((d) => ({ ...d, search: idx.entries })); anything
\* else changes nothing.
searchSettles(outcome) ==
  /\ loads["search.json"] = "pending"
  /\ loads' = [loads EXCEPT !["search.json"] = outcome]
  /\ data' = IF outcome = "ok" THEN [data EXCEPT !.search = searchIndex]
             ELSE data
  /\ handled' = handled \cup {"search"}
  /\ UNCHANGED notLoadVars

NextLoad ==
  \/ \E f \in CORE_FILES, o \in {"ok", "failed"} : coreFileSettles(f, o)
  \/ coreThen
  \/ coreCatch
  \/ \E o \in {"ok", "unusable", "failed"} : metaSettles(o)
  \/ \E o \in {"ok", "unusable", "failed"} : searchSettles(o)

SpecLoad == InitLoad /\ [][NextLoad]_vars

(* ------------------------------------------------------------------ *)
(* loaders.js: fetchLocalData                                          *)
(* ------------------------------------------------------------------ *)

\* Everything but the state of fetchLocalData.
notLocalVars ==
  <<appVars, scrapeVars, routeVars, searchVars, fetchVars, loadVars,
    liveVars>>

\* How a fetch with its res.json() can end: the JSON is there, the status
\* is not ok, the body does not parse, or fetch itself rejects.
FetchOutcomes == {"ok", "http", "unparsable", "rejected"}

\* The entries array of a search.json found on the server.
fileEntries ==
  <<[kind |-> "type", id |-> ILE, haystack |-> <<"i","l","e">>]>>

\* { ...metaJson, mode: metaJson.mode || "local" }
withMode(m) ==
  [sources |-> m.sources,
   mode |-> IF "mode" \in DOMAIN m THEN m.mode ELSE "local"]

\* fetchLocalData has been called: the three fetchJson calls of its
\* Promise.all are under way.
InitLocal ==
  /\ AppInit
  /\ ScrapeIdle
  /\ RouteIdle
  /\ SearchIdle
  /\ FetchIdle
  /\ LoadIdle
  /\ LiveIdle
  /\ localPc = "core"
  /\ localLoads = [f \in CORE_FILES \cup OPTIONAL_FILES |->
                     IF f \in CORE_FILES THEN "pending" ELSE "idle"]
  /\ localMeta = Null
  /\ localResult = Null

\* fetchJson(path) settles: it returns the JSON ("ok") or throws.
localCoreSettles(f, outcome) ==
  /\ localLoads[f] = "pending"
  /\ localLoads' = [localLoads EXCEPT ![f] = outcome]
  /\ UNCHANGED <<localPc, localMeta, localResult>>
  /\ UNCHANGED notLocalVars

\* Promise.all resolved: fetchOptionalJson("data/meta.json") is called.
localCoreResolved ==
  /\ localPc = "core"
  /\ \A f \in CORE_FILES : localLoads[f] = "ok"
  /\ localPc' = "meta"
  /\ localLoads' = [localLoads EXCEPT !["meta.json"] = "pending"]
  /\ UNCHANGED <<localMeta, localResult>>
  /\ UNCHANGED notLocalVars

\* Promise.all rejected: the await throws and fetchLocalData rejects.
localCoreRejected ==
  /\ localPc = "core"
  /\ \E f \in CORE_FILES : localLoads[f] \notin {"pending", "ok"}
  /\ localPc' = "rejected"
  /\ UNCHANGED <<localLoads, localMeta, localResult>>
  /\ UNCHANGED notLocalVars

\* fetchOptionalJson(path): null when !res.ok, null when res.json() throws,
\* the JSON otherwise; `await fetch(path)` stands outside the try, so a
\* rejected fetch rejects the call.
fetchOptionalJson(outcome, json) ==
  IF outcome = "rejected" THEN [throws |-> "fetch"]
  ELSE IF outcome = "ok" THEN [value |-> json]
  ELSE [value |-> Null]

\* await fetchOptionalJson("data/meta.json") settles; on a value
\* fetchOptionalJson("data/search.json") is called.
localMetaSettles(outcome) ==
  /\ localPc = "meta"
  /\ LET r == fetchOptionalJson(outcome, metaJson)
     IN  IF "throws" \in DOMAIN r
         THEN /\ localPc' = "rejected"
              /\ localLoads' = [localLoads EXCEPT !["meta.json"] = outcome]
              /\ UNCHANGED localMeta
         ELSE /\ localPc' = "search"
              /\ localLoads' = [localLoads EXCEPT !["meta.json"] = outcome,
                                                  !["search.json"] = "pending"]
              /\ localMeta' = r.value
  /\ UNCHANGED localResult
  /\ UNCHANGED notLocalVars

\* await fetchOptionalJson("data/search.json") settles ("noEntries": a JSON
\* without an entries array); on a value the call builds search and meta
\* and returns.
localSearchSettles(outcome) ==
  /\ localPc = "search"
  /\ localLoads' = [localLoads EXCEPT !["search.json"] = outcome]
  /\ LET r == IF outcome = "noEntries"
              THEN fetchOptionalJson("ok", [version |-> 1])
              ELSE fetchOptionalJson(outcome, [entries |-> fileEntries])
     IN  IF "throws" \in DOMAIN r
         THEN localPc' = "rejected" /\ UNCHANGED localResult
         ELSE /\ localPc' = "resolved"
              /\ localResult' =
                   [types |-> coreJson("types.json"),
                    glossary |-> coreJson("glossary.json"),
                    relations |-> coreJson("relations.json"),
                    meta |-> IF localMeta # Null THEN withMode(localMeta)
                             ELSE [mode |-> "local"],
                    search |-> IF r.value # Null
                                  /\ "entries" \in DOMAIN r.value
                               THEN r.value.entries
                               ELSE buildSearchEntries(
                                      coreJson("types.json"),
                                      coreJson("glossary.json"))]
  /\ UNCHANGED localMeta
  /\ UNCHANGED notLocalVars

NextLocal ==
  \/ \E f \in CORE_FILES, o \in FetchOutcomes : localCoreSettles(f, o)
  \/ localCoreResolved
  \/ localCoreRejected
  \/ \E o \in FetchOutcomes : localMetaSettles(o)
  \/ \E o \in FetchOutcomes \cup {"noEntries"} : localSearchSettles(o)

SpecLocal == InitLocal /\ [][NextLocal]_vars

(* ------------------------------------------------------------------ *)
(* loaders.js: fetchLiveWikisocionData                                 *)
(* ------------------------------------------------------------------ *)

\* Everything but the state of fetchLiveWikisocionData.
notLiveVars ==
  <<appVars, scrapeVars, routeVars, searchVars, fetchVars, loadVars,
    localVars>>

\* The requests of the first MaxRacing codes settle one by one, in any
\* order and either way; the others settle together.
MaxRacing == 5

\* Promise.all has been called on TYPE_CODES.map((code) => fetchType(code)):
\* the 16 requests are under way, no value is in yet.
InitLive ==
  /\ AppInit
  /\ ScrapeIdle
  /\ RouteIdle
  /\ SearchIdle
  /\ FetchIdle
  /\ LoadIdle
  /\ LocalIdle
  /\ livePc = "pending"
  /\ liveLoads = [k \in 1..Len(TYPE_CODES) |-> "pending"]
  /\ liveResult = [k \in 1..Len(TYPE_CODES) |-> Null]

\* A Promise.all that collects the values as they come.
store_push(values, k, v) ==
  [values EXCEPT ![CHOOSE i \in 1..Len(values) :
                     values[i] = Null
                     /\ \A j \in 1..(i - 1) : values[j] # Null] = v]

\* Promise.all keeps the value of the k-th promise at index k.
store(values, k, v) == [values EXCEPT ![k] = v]

\* The values after the promises ks (a sequence of indexes) fulfilled.
RECURSIVE storeAll(_, _)
storeAll(values, ks) ==
  IF Len(ks) = 0 THEN values
  ELSE storeAll(store(values, ks[1], fetchType(TYPE_CODES[ks[1]])), Tail(ks))

\* The fetchType promises ks settle: fulfilled ("ok": the response is ok
\* and has parse.text) or rejected. Promise.all rejects at the first
\* rejection and resolves when the last value is in.
liveSettle(ks, outcome) ==
  /\ \A i \in 1..Len(ks) : liveLoads[ks[i]] = "pending"
  /\ LET loads2 == [k \in 1..Len(liveLoads) |->
                      IF \E i \in 1..Len(ks) : ks[i] = k THEN outcome
                      ELSE liveLoads[k]]
         values2 == IF outcome = "ok" THEN storeAll(liveResult, ks)
                    ELSE liveResult
     IN  /\ liveLoads' = loads2
         /\ liveResult' = values2
         /\ livePc' =
              IF livePc # "pending" THEN livePc
              ELSE IF outcome = "failed" THEN "rejected"
              ELSE IF \A k \in 1..Len(loads2) : loads2[k] = "ok"
                   THEN "resolved"
              ELSE "pending"
  /\ UNCHANGED notLiveVars

\* One of the first MaxRacing requests settles.
liveTypeSettles(k, outcome) ==
  /\ k \in 1..MaxRacing
  /\ liveSettle(<<k>>, outcome)

\* The other requests are answered.
liveRestSettle ==
  /\ MaxRacing < Len(TYPE_CODES)
  /\ liveSettle([i \in 1..(Len(TYPE_CODES) - MaxRacing) |-> MaxRacing + i],
                "ok")

NextLive ==
  \/ \E k \in 1..MaxRacing, o \in {"ok", "failed"} : liveTypeSettles(k, o)
  \/ liveRestSettle

SpecLive == InitLive /\ [][NextLive]_vars

(* ------------------------------------------------------------------ *)
(* Route and URL hash: WikisocionMVP.navigate, onHash, TypeCompare     *)
(* ------------------------------------------------------------------ *)

\* hashchange events that may be queued at once.
MaxPending == 2

\* The codes picked in the Select elements, the type index and the search
\* results, and the glossary terms opened from the search results.
SelectCodes == {ILE, SEI, LII}
GlossaryTerms == {<<"T","e">>, <<"F","i">>}

\* The routes the mounted components pass to navigate(name, params).
NavTargets(page) ==
  \* TopBar: logo, nav buttons, search results
  {[name |-> n] : n \in {"home", "start", "types", "compare", "glossary"}}
  \cup {[name |-> "type", code |-> c] : c \in SelectCodes}
  \cup {[name |-> "glossary", focus |-> f] : f \in GlossaryTerms}
  \cup (IF page = "home"
        THEN {[name |-> n] : n \in {"relations", "theory"}}
        ELSE {})
  \cup (IF page = "theory" THEN {[name |-> "functions"]} ELSE {})
  \cup (IF page = "start" THEN {[name |-> "theory"]} ELSE {})

AllNavTargets ==
  UNION {NavTargets(page) : page \in {"home", "theory", "start", "types"}}

\* The hashes a typed URL, a link, the back and forward buttons or the
\* delayed link of the type page can put in the address bar.
Hashes ==
  {<<>>}
  \cup {Chars[k] : k \in {"#/", "#/start", "#/types", "#/relations",
                          "#/theory", "#/functions", "#/library", "#/about",
                          "#/glossary", "#/compare", "#/types/LII",
                          "#/type/lii", "#/type/XXX", "#/glossary/Te",
                          "#/compare/LII/SEI", "#/compare/LII",
                          "#/compare/XXX/YYY", "#/nowhere", "#relations",
                          "#/type//LII"}}
  \cup {routeToHash([name |-> "type", code |-> c]) : c \in SelectCodes}
  \cup {routeToHash([name |-> "compare", a |-> x, b |-> y]) :
          x \in SelectCodes, y \in SelectCodes}

\* The state after setRoute(r) has been rendered and the effects of the
\* render have run, h and p being the hash and the queued events when
\* setRoute was called.  TypeCompare keeps typeA and typeB, takes initialA
\* and initialB when they are set and have changed, throws in render when
\* byCode has no record for them, and calls onNav('compare', {a, b}) when
\* it mounts or a selection has changed.
settle(r, h, p) ==
  IF r.name # "compare"
  THEN [route |-> r, hash |-> h, pending |-> p,
        typeA |-> Null, typeB |-> Null, crashed |-> FALSE]
  ELSE
    LET mounted == route.name = "compare" /\ typeA # Null
        initialA == Field(r, "a")
        initialB == Field(r, "b")
        tA == IF ~mounted THEN (IF initialA # Null THEN initialA ELSE ILE)
              ELSE IF initialA # Null /\ initialA # Field(route, "a")
              THEN initialA ELSE typeA
        tB == IF ~mounted THEN (IF initialB # Null THEN initialB ELSE SEI)
              ELSE IF initialB # Null /\ initialB # Field(route, "b")
              THEN initialB ELSE typeB
        throws == byCodeGet(tA) = Undefined \/ byCodeGet(tB) = Undefined
        next == [name |-> "compare", a |-> tA, b |-> tB]
    IN  IF throws
        THEN [route |-> r, hash |-> h, pending |-> p,
              typeA |-> Null, typeB |-> Null, crashed |-> TRUE]
        ELSE IF ~mounted \/ tA # typeA \/ tB # typeB
        THEN [route |-> next,
              hash |-> routeToHash(next),
              pending |-> IF h # routeToHash(next) THEN p + 1 ELSE p,
              typeA |-> tA, typeB |-> tB, crashed |-> FALSE]
        ELSE [route |-> r, hash |-> h, pending |-> p,
              typeA |-> tA, typeB |-> tB, crashed |-> FALSE]

\* The pages rendered under route r: Relations, TypeDetail.
renderPages(r, dead) ==
  /\ IF r.name = "relations" /\ ~dead
     THEN IF route.name = "relations"
          THEN UNCHANGED <<a, b, relInfo, ribbons>>
          ELSE /\ a' = ILE
               /\ b' = SEI
               /\ relInfo' = renderRelInfo(ILE, SEI)
               /\ ribbons' = renderRibbons(ILE)
     ELSE RelationsUnmounted
  /\ IF r.name = "type" /\ ~dead
     THEN /\ dualCode' = typeDetailDualCode(DUALS, r.code)
          /\ other' = dualityListOther(typeDetailRecord(r.code).code)
          /\ detail' = typeDetailRecord(r.code).code
     ELSE TypeDetailUnmounted

commit(s) ==
  /\ route' = s.route
  /\ hash' = s.hash
  /\ pending' = s.pending
  /\ typeA' = s.typeA
  /\ typeB' = s.typeB
  /\ crashed' = s.crashed
  /\ renderPages(s.route, s.crashed)
  /\ UNCHANGED scrapeVars

\* The page is opened at a URL: useState(() => hashToRoute(location.hash)),
\* first render and its effects.
InitRoute ==
  /\ ScrapeIdle
  /\ SearchIdle
  /\ IoIdle
  /\ \E h \in Hashes :
       LET r == hashToRoute(h)
           s == IF r.name # "compare"
                THEN [route |-> r, hash |-> h, pending |-> 0,
                      typeA |-> Null, typeB |-> Null, crashed |-> FALSE]
                ELSE LET tA == IF Field(r, "a") # Null THEN r.a ELSE ILE
                         tB == IF Field(r, "b") # Null THEN r.b ELSE SEI
                         next == [name |-> "compare", a |-> tA, b |-> tB]
                     IN  IF byCodeGet(tA) = Undefined
                            \/ byCodeGet(tB) = Undefined
                         THEN [route |-> r, hash |-> h, pending |-> 0,
                               typeA |-> Null, typeB |-> Null,
                               crashed |-> TRUE]
                         ELSE [route |-> next, hash |-> routeToHash(next),
                               pending |-> IF h # routeToHash(next)
                                           THEN 1 ELSE 0,
                               typeA |-> tA, typeB |-> tB,
                               crashed |-> FALSE]
       IN  /\ route = s.route
           /\ hash = s.hash
           /\ pending = s.pending
           /\ typeA = s.typeA
           /\ typeB = s.typeB
           /\ crashed = s.crashed
           /\ a = (IF s.route.name = "relations" THEN ILE ELSE Null)
           /\ b = (IF s.route.name = "relations" THEN SEI ELSE Null)
           /\ relInfo = (IF s.route.name = "relations"
                         THEN renderRelInfo(ILE, SEI) ELSE NoRelInfo)
           /\ ribbons = (IF s.route.name = "relations"
                         THEN renderRibbons(ILE) ELSE <<>>)
           /\ dualCode = (IF s.route.name = "type"
                          THEN typeDetailDualCode(DUALS, s.route.code)
                          ELSE Null)
           /\ other = (IF s.route.name = "type"
                       THEN dualityListOther(
                              typeDetailRecord(s.route.code).code)
                       ELSE Null)
           /\ detail = (IF s.route.name = "type"
                        THEN typeDetailRecord(s.route.code).code ELSE Null)

\* navigate(name, params): setRoute(next), then the hash is written when
\* it differs, which queues a hashchange event.
navigate(next) ==
  /\ ~crashed
  /\ pending < MaxPending
  /\ next \in NavTargets(route.name)
  /\ LET nextHash == routeToHash(next)
     IN  commit(settle(next, nextHash,
                       IF hash # nextHash THEN pending + 1 ELSE pending))
  /\ UNCHANGED <<searchVars, ioVars>>

\* onHash: a queued hashchange event is delivered.  After a render has
\* thrown the listener is gone and the event has no effect.
onHash ==
  /\ pending > 0
  /\ IF crashed
     THEN /\ pending' = pending - 1
          /\ UNCHANGED <<appVars, scrapeVars, hash, typeA, typeB, crashed>>
     ELSE commit(settle(hashToRoute(hash), hash, pending - 1))
  /\ UNCHANGED <<searchVars, ioVars>>

\* The user types a URL, follows a link, or goes back or forward.
hashChanged(h) ==
  /\ h # hash
  /\ pending < MaxPending
  /\ hash' = h
  /\ pending' = pending + 1
  /\ UNCHANGED <<appVars, scrapeVars, typeA, typeB, crashed>>
  /\ UNCHANGED <<searchVars, ioVars>>

\* TypeCompare: <Select label="Type A" value={typeA} setValue={setTypeA}>
\* and the effect on [typeA, typeB].
setTypeA(c) ==
  /\ route.name = "compare"
  /\ ~crashed
  /\ pending < MaxPending
  /\ c # typeA
  /\ LET next == [name |-> "compare", a |-> c, b |-> typeB]
     IN  commit([route |-> next, hash |-> routeToHash(next),
                 pending |-> IF hash # routeToHash(next)
                             THEN pending + 1 ELSE pending,
                 typeA |-> c, typeB |-> typeB, crashed |-> FALSE])
  /\ UNCHANGED <<searchVars, ioVars>>

\* TypeCompare: <Select label="Type B" value={typeB} setValue={setTypeB}>
setTypeB(c) ==
  /\ route.name = "compare"
  /\ ~crashed
  /\ pending < MaxPending
  /\ c # typeB
  /\ LET next == [name |-> "compare", a |-> typeA, b |-> c]
     IN  commit([route |-> next, hash |-> routeToHash(next),
                 pending |-> IF hash # routeToHash(next)
                             THEN pending + 1 ELSE pending,
                 typeA |-> typeA, typeB |-> c, crashed |-> FALSE])
  /\ UNCHANGED <<searchVars, ioVars>>

NextRoute ==
  \/ \E next \in AllNavTargets : navigate(next)
  \/ onHash
  \/ \E h \in Hashes : hashChanged(h)
  \/ \E c \in SelectCodes : setTypeA(c)
  \/ \E c \in SelectCodes : setTypeB(c)

SpecRoute == InitRoute /\ [][NextRoute]_vars

(* ------------------------------------------------------------------ *)
(* The search box: TopBar                                              *)
(* ------------------------------------------------------------------ *)

\* The texts typed in the search box.
Queries ==
  {<<>>, <<"l","i","i">>, <<"e">>, <<"e","p">>, <<"T","e">>, <<"i","n","t">>,
   <<"l","o","g","i","c">>}

\* A type code typed in some letter case: mask[k] keeps the k-th letter in
\* upper case.
recase(code, mask) ==
  << IF mask[1] THEN code[1] ELSE toLowerCase(<<code[1]>>)[1],
     IF mask[2] THEN code[2] ELSE toLowerCase(<<code[2]>>)[1],
     IF mask[3] THEN code[3] ELSE toLowerCase(<<code[3]>>)[1] >>

\* The 3-letter codes in every letter case, bare and with white space
\* around them.
CodeQueries ==
  UNION { { recase(TYPE_CODES[k], mask),
            <<" ">> \o recase(TYPE_CODES[k], mask) \o <<" ", " ">> } :
          k \in 1..Len(TYPE_CODES), mask \in [1..3 -> BOOLEAN] }

\* Longest piece of a definition typed as a query.
MaxQueryLen == 3

\* The pieces of the glossary definitions of 1..MaxQueryLen characters.
DefQueries ==
  UNION { { SubSeq(glossary[k].shortDef, i, i + n - 1) :
            i \in 1..(Len(glossary[k].shortDef) - n + 1) } :
          k \in 1..Len(glossary), n \in 1..MaxQueryLen }

QueryTexts == CodeQueries \cup DefQueries

\* useMemo: the results for each text and state of the index, computed
\* once.
RECURSIVE memoOver(_)
memoOver(qs) ==
  IF qs = {} THEN <<>>
  ELSE LET q == CHOOSE x \in qs : TRUE
       IN  (<<q, FALSE>> :> searchResults(q, FALSE)) @@
           (<<q, TRUE>> :> searchResults(q, TRUE)) @@
           memoOver(qs \ {q})

resultsMemo == memoOver(Queries)

memoResults(q, i) ==
  IF q \in Queries THEN resultsMemo[<<q, i>>] ELSE searchResults(q, i)

Min(x, y) == IF x < y THEN x ELSE y
Max(x, y) == IF x > y THEN x ELSE y

\* The page is open on the home route; search.json has yet to arrive.
InitSearch ==
  /\ AppInit
  /\ ScrapeIdle
  /\ RouteIdle
  /\ IoIdle
  /\ query = <<>>
  /\ indexed = FALSE
  /\ results = <<>>
  /\ selected = 0
  /\ opened = Null

\* onChange={(e) => setQuery(e.target.value)}: the memo is recomputed and
\* the effect on [query] resets the selection.
setQuery(q) ==
  /\ ~crashed
  /\ q # query
  /\ query' = q
  /\ results' = memoResults(q, indexed)
  /\ selected' = 0
  /\ UNCHANGED <<indexed, opened>>
  /\ UNCHANGED <<appVars, scrapeVars, routeVars, ioVars>>

\* fetch("data/search.json") resolves: setData(d => ({ ...d, search })),
\* the memo is recomputed, the selection is kept.
searchArrives ==
  /\ ~crashed
  /\ ~indexed
  /\ indexed' = TRUE
  /\ results' = memoResults(query, TRUE)
  /\ UNCHANGED <<query, selected, opened>>
  /\ UNCHANGED <<appVars, scrapeVars, routeVars, ioVars>>

\* An arrow key that moves past the end of the list.
arrowDown_unclamped ==
  /\ ~crashed
  /\ Len(results) # 0
  /\ selected' = selected + 1
  /\ UNCHANGED <<query, indexed, results, opened>>
  /\ UNCHANGED <<appVars, scrapeVars, routeVars, ioVars>>

\* onKeyDown, ArrowDown: setSelected((i) => Math.min(i + 1, length - 1))
arrowDown ==
  /\ ~crashed
  /\ Len(results) # 0
  /\ selected' = Min(selected + 1, Len(results) - 1)
  /\ UNCHANGED <<query, indexed, results, opened>>
  /\ UNCHANGED <<appVars, scrapeVars, routeVars, ioVars>>

\* onKeyDown, ArrowUp: setSelected((i) => Math.max(i - 1, 0))
arrowUp ==
  /\ ~crashed
  /\ Len(results) # 0
  /\ selected' = Max(selected - 1, 0)
  /\ UNCHANGED <<query, indexed, results, opened>>
  /\ UNCHANGED <<appVars, scrapeVars, routeVars, ioVars>>

\* onMouseEnter={() => setSelected(i)} on the i-th result
mouseEnter(i) ==
  /\ ~crashed
  /\ i < Len(results)
  /\ selected' = i
  /\ UNCHANGED <<query, indexed, results, opened>>
  /\ UNCHANGED <<appVars, scrapeVars, routeVars, ioVars>>

\* onKeyDown, Escape: setQuery('') (after the guard on results.length)
escape ==
  /\ ~crashed
  /\ Len(results) # 0
  /\ query' = <<>>
  /\ results' = memoResults(<<>>, indexed)
  /\ selected' = 0
  /\ UNCHANGED <<indexed, opened>>
  /\ UNCHANGED <<appVars, scrapeVars, routeVars, ioVars>>

\* onResult(r): navigate("type", { code: r.id }) or
\* navigate("glossary", { focus: r.id })
onResult(r) ==
  LET next == IF r.kind = "type" THEN [name |-> "type", code |-> r.id]
              ELSE [name |-> "glossary", focus |-> r.id]
      nextHash == routeToHash(next)
  IN  commit(settle(next, nextHash,
                    IF hash # nextHash THEN pending + 1 ELSE pending))

\* onKeyDown, Enter: item = results[selected] || results[0]
enter ==
  /\ ~crashed
  /\ Len(results) # 0
  /\ pending < MaxPending
  /\ LET item == IF selected < Len(results) THEN results[selected + 1]
                 ELSE results[1]
         highlighted == IF selected < Len(results) THEN results[selected + 1]
                        ELSE Null
     IN  /\ onResult(item)
         /\ opened' = [item |-> item, highlighted |-> highlighted]
  /\ UNCHANGED <<query, indexed, results, selected>>
  /\ UNCHANGED ioVars

NextSearch ==
  \/ escape
  \/ \E q \in Queries : setQuery(q)
  \/ searchArrives
  \/ arrowDown
  \/ arrowUp
  \/ \E i \in 0..9 : mouseEnter(i)
  \/ enter
  \/ onHash

SpecSearch == InitSearch /\ [][NextSearch]_vars

(* ------------------------------------------------------------------ *)
(* The search function over its inputs                                 *)
(* ------------------------------------------------------------------ *)

\* A text is put into the empty search box.
typeInto(q) ==
  /\ query = <<>>
  /\ setQuery(q)

NextQuery ==
  \/ \E q \in QueryTexts : typeInto(q)
  \/ searchArrives
  \/ escape

SpecQuery == InitSearch /\ [][NextQuery]_vars

(* ------------------------------------------------------------------ *)
(* Properties of the relation classifier                               *)
(* ------------------------------------------------------------------ *)

OnRelations == route.name = "relations"
OnTypePage  == route.name = "type"

\* The records of the selected pair.
recA == byCodeGet(a)
recB == byCodeGet(b)

\* The fixed enumeration of relation labels.
RelationLabels ==
  {"Identity", "Duality", "Activation", "Mirror", "Semi-duality",
   "Extinguishment", "Conflict", "Business", "Super-ego", "Other"}

\* The 8 canonical dual pairs, as unordered pairs.
CanonicalDualPairs ==
  {{ILE, SEI}, {LII, ESE}, {SLE, IEI}, {LSI, EIE},
   {SEE, ILI}, {ESI, LIE}, {LSE, EII}, {SLI, IEE}}

\* The ordered rule list: each predicate from the raw fields.
RuleIdentity(x, y) == x.code = y.code
RuleDuality(x, y) == {x.code, y.code} \in CanonicalDualPairs
RuleActivation(x, y) == x.leading = y.creative /\ x.creative = y.leading
RuleMirror(x, y) ==
  x.leading = y.leading /\ x.creative = y.creative /\ ~RuleIdentity(x, y)
RuleSemiDuality(x, y) ==
  (x.leading = y.creative \/ y.leading = x.creative) /\ ~RuleActivation(x, y)
RuleExtinguishment(x, y) ==
  \/ x.leading = y.leading /\ ~RuleIdentity(x, y)
  \/ x.creative = y.creative /\ ~RuleMirror(x, y)
RuleQuadraIndex(q) ==
  CASE q = "Alpha" -> 0 [] q = "Beta" -> 1 [] q = "Gamma" -> 2 [] q = "Delta" -> 3
RuleQuadraDistance(x, y) ==
  LET d == RuleQuadraIndex(x.quadra) - RuleQuadraIndex(y.quadra)
  IN  IF d < 0 THEN -d ELSE d
RuleBusiness(x, y) ==
  /\ RuleQuadraDistance(x, y) \in {1, 3}
  /\ ~RuleDuality(x, y) /\ ~RuleSemiDuality(x, y) /\ ~RuleExtinguishment(x, y)
RuleConflict(x, y) ==
  RuleQuadraDistance(x, y) = 2 /\ x.quadra # y.quadra /\ ~RuleDuality(x, y)

\* Top to bottom, first match wins; Super-ego is the catch-all, so the
\* default Other is never reached.
RuleListLabel(x, y) ==
  IF RuleIdentity(x, y) THEN "Identity"
  ELSE IF RuleDuality(x, y) THEN "Duality"
  ELSE IF RuleActivation(x, y) THEN "Activation"
  ELSE IF RuleMirror(x, y) THEN "Mirror"
  ELSE IF RuleSemiDuality(x, y) THEN "Semi-duality"
  ELSE IF RuleExtinguishment(x, y) THEN "Extinguishment"
  ELSE IF RuleBusiness(x, y) THEN "Business"
  ELSE IF RuleConflict(x, y) THEN "Conflict"
  ELSE "Super-ego"

\* C1: classifyRelation is symmetric: the label shown for the selected pair
\* (a, b) is the label of (b, a), and every ribbon from a to another type n
\* carries the label of (n, a).
C1_Symmetric ==
  OnRelations =>
    /\ relInfo.key = classifyRelation(recB, recA, DUALS).key
    /\ \A n \in DOMAIN ribbons :
         ribbons[n].key = classifyRelation(byCodeGet(n), recA, DUALS).key

\* A pair for which only one of the two semi-dual disjuncts holds.
C1_Witness ==
  OnRelations /\ a = ILE /\ b = LSI /\ relInfo.key = "Semi-duality"

\* C2: for every ordered pair of canonical records the label returned by
\* classifyRelation equals the label of the ordered rule list evaluated top
\* to bottom with first match wins.
C2_MatchesRuleList ==
  OnRelations => relInfo.key = RuleListLabel(recA, recB)

\* C3: classifyRelation is total over the closed domain: for every ordered
\* pair, a = b included, it returns one label of the fixed enumeration.
C3_TotalOverEnumeration ==
  OnRelations =>
    /\ relInfo.key \in RelationLabels
    /\ \A n \in DOMAIN ribbons : ribbons[n].key \in RelationLabels

C3_Witness ==
  /\ OnRelations /\ a = EII /\ b = EII
  /\ relInfo.key \in RelationLabels
  /\ ribbons[IEE].key = "Activation"

\* C4: for the 16 canonical records classifyRelation never returns Other.
C4_NeverOther ==
  OnRelations => relInfo.key # "Other"

\* C5: every pair of two distinct records of the same quadra that none of
\* Identity, Duality, Activation, Mirror, Semi-duality and Extinguishment
\* matches is labelled Super-ego.
C5_SuperEgoCatchAll ==
  ( /\ OnRelations
    /\ a # b
    /\ recA.quadra = recB.quadra
    /\ ~RuleIdentity(recA, recB) /\ ~RuleDuality(recA, recB)
    /\ ~RuleActivation(recA, recB) /\ ~RuleMirror(recA, recB)
    /\ ~RuleSemiDuality(recA, recB) /\ ~RuleExtinguishment(recA, recB) )
  => relInfo.key = "Super-ego"

\* C6: the label is Identity exactly when both selected codes are the same;
\* no ribbon to another type is Identity.
C6_IdentityExclusive ==
  OnRelations =>
    /\ (relInfo.key = "Identity" <=> a = b)
    /\ \A n \in DOMAIN ribbons : ribbons[n].key # "Identity"

C6_Witness ==
  OnRelations /\ a = LII /\ b = LII /\ relInfo.key = "Identity"

\* C7: each of the 8 canonical dual pairs is labelled Duality in both
\* orderings, with the dual set built from the relations dataset.
C7_DualityCoverage ==
  OnRelations =>
    /\ ({a, b} \in CanonicalDualPairs => relInfo.key = "Duality")
    /\ \A n \in DOMAIN ribbons :
         {a, n} \in CanonicalDualPairs => ribbons[n].key = "Duality"

\* The pair the dataset stores as ["LII","ESE"], selected in both orderings.
C7_Witness ==
  /\ OnRelations /\ a = LII /\ b = ESE /\ relInfo.key = "Duality"
  /\ classifyRelation(recB, recA, DUALS).key = "Duality"

\* C8: the dual pairs are a perfect matching on the 16 codes, and the type
\* page's partner lookup is an involution without fixed points.
C8_PerfectMatching ==
  /\ \A c \in Codes :
       Cardinality({i \in 1..Len(DUAL_PAIRS) :
                      c = DUAL_PAIRS[i][1] \/ c = DUAL_PAIRS[i][2]}) = 1
  /\ OnTypePage =>
       /\ dualCode # Null
       /\ dualCode # route.code
       /\ typeDetailDualCode(DUALS, dualCode) = route.code

\* ESE is the second member of its dataset pair and the first half of its key.
C8_Witness ==
  OnTypePage /\ route.code = ESE /\ dualCode = LII

\* C9: every pair whose quadra indices differ by exactly 2 and that is not
\* a dual pair is labelled Conflict.
C9_ConflictAtDistanceTwo ==
  OnRelations =>
    /\ ( RuleQuadraDistance(recA, recB) = 2 /\ {a, b} \notin CanonicalDualPairs
         => relInfo.key = "Conflict" )
    /\ \A n \in DOMAIN ribbons :
         ( RuleQuadraDistance(recA, byCodeGet(n)) = 2
           /\ {a, n} \notin CanonicalDualPairs )
         => ribbons[n].key = "Conflict"

C9_Witness ==
  /\ OnRelations /\ a = SLE /\ b = EII
  /\ recA.quadra = "Beta" /\ recB.quadra = "Delta"
  /\ relInfo.key = "Conflict"

\* C10: the label is Activation if and only if the pair is not a dual pair
\* and the two records' leading and creative channels are swapped.
C10_ActivationIff ==
  OnRelations =>
    ( relInfo.key = "Activation"
      <=> ( /\ {a, b} \notin CanonicalDualPairs
            /\ recA.leading = recB.creative
            /\ recA.creative = recB.leading ) )

C10_Witness ==
  /\ OnRelations /\ a = ILE /\ b = LII
  /\ recA.leading = "Ne" /\ recB.creative = "Ne"
  /\ relInfo.key = "Activation"

(* ------------------------------------------------------------------ *)
(* Properties of the static tables, the dual keys and the colours       *)
(* ------------------------------------------------------------------ *)

Quadras == {"Alpha", "Beta", "Gamma", "Delta"}
Temperaments == {"EP", "EJ", "IP", "IJ"}
InformationElements == {"Ne", "Ni", "Se", "Si", "Te", "Ti", "Fe", "Fi"}
CanonicalCodes ==
  {ILE, SEI, LII, ESE, SLE, IEI, LSI, EIE, SEE, ILI, ESI, LIE, LSE, EII, SLI, IEE}

ValidRecord(r) ==
  /\ r.leading # r.creative
  /\ r.quadra \in Quadras
  /\ r.temperament \in Temperaments
  /\ r.leading \in InformationElements
  /\ r.creative \in InformationElements

\* C11: in every copy of the type table each of the 16 canonical records has
\* leading # creative, a quadra among the four, a temperament among the four
\* and both channels among the 8 information elements; so has every record
\* the client shows.
C11_ValidRecords ==
  /\ \A c \in CanonicalCodes :
       /\ c \in DOMAIN TYPE_INFO /\ ValidRecord(TYPE_INFO[c])
       /\ c \in DOMAIN TYPE_INFO_prebuild /\ ValidRecord(TYPE_INFO_prebuild[c])
       /\ c \in DOMAIN TYPE_INFO_loaders /\ ValidRecord(TYPE_INFO_loaders[c])
       /\ c \in DOMAIN QUADRA_INFO /\ c \in DOMAIN FUNCTION_INFO
       /\ ValidRecord(scrapeTsType(c))
  /\ OnRelations => ValidRecord(recA) /\ ValidRecord(recB)
  /\ (OnTypePage /\ route.code \in DOMAIN byCode) => ValidRecord(byCodeGet(route.code))

C11_Witness ==
  /\ OnRelations /\ a = LSE /\ b = SLI
  /\ recA.leading = "Te" /\ recA.creative = "Si"
  /\ recB.leading = "Si" /\ recB.creative = "Te"

\* C12: every key of the dual set the client builds has exactly two codes
\* with the first sorted before the second, key(a, b) = key(b, a), and the
\* membership test answers the same for (a, b) and (b, a).
C12_CanonicalDualKeys ==
  /\ \A i \in 1..Len(DUALS) :
       LET parts == Split(DUALS[i], "-")
       IN  /\ Len(parts) = 2
           /\ parts[1] \in CanonicalCodes /\ parts[2] \in CanonicalCodes
           /\ StrLess(parts[1], parts[2])
           /\ Join(Sort2(parts[1], parts[2]), <<"-">>) = DUALS[i]
  /\ OnRelations =>
       /\ classifyKey(recA, recB) = classifyKey(recB, recA)
       /\ isDual(recA, recB, DUALS) = isDual(recB, recA, DUALS)
       /\ isDual(recA, recB, DUALS) <=> {a, b} \in CanonicalDualPairs

\* The pair stored unsorted as ["LII","ESE"], asked for in stored order.
C12_Witness ==
  /\ OnRelations /\ a = LII /\ b = ESE
  /\ classifyKey(recA, recB) = <<"E","S","E","-","L","I","I">>
  /\ SetHas(DUALS, <<"E","S","E","-","L","I","I">>)
  /\ ~SetHas(DUALS, <<"L","I","I","-","E","S","E">>)

\* C13: the colour returned by classifyRelation is the RELATION_COLORS entry
\* of the returned label, every label of the enumeration has an entry, and
\* no two labels share a colour.
C13_ColourOneToOne ==
  /\ \A l \in RelationLabels : l \in DOMAIN RELATION_COLORS
  /\ \A l1, l2 \in RelationLabels :
       l1 # l2 => RELATION_COLORS[l1] # RELATION_COLORS[l2]
  /\ OnRelations =>
       /\ relInfo.color = RELATION_COLORS[relInfo.key]
       /\ \A n \in DOMAIN ribbons : ribbons[n].color = RELATION_COLORS[ribbons[n].key]
       /\ \A n \in DOMAIN ribbons :
            (ribbons[n].color = relInfo.color) <=> (ribbons[n].key = relInfo.key)

C13_Witness ==
  /\ OnRelations /\ a = SEE /\ b = LII
  /\ relInfo.key = "Conflict" /\ relInfo.color = "#ef4444"
  /\ ribbons[LIE].key = "Other" /\ ribbons[LIE].color = "#64748b"

(* ------------------------------------------------------------------ *)
(* Properties of the scraper run                                       *)
(* ------------------------------------------------------------------ *)

Written == {files[i].name : i \in 1..Len(files)}

\* C14 (as stated): in every source mode, once fetchWithRetry has exhausted
\* its retries for a page the run fails: it never reaches the writes, never
\* exits with 0 and writes none of the five files.
C14_AnyExhaustedFetchFailsRun ==
  thrown # {} =>
    /\ pc \notin {"write", "done"}
    /\ exitCode # <<0>>
    /\ Written = {}

\* C14 (amended): an exhausted fetch of a GitHub page, in github mode or in
\* the fallback of mediawiki and auto mode, fails the run: scrapeAll has
\* rejected, the exit code is 1 and no file is written.  An exhausted
\* MediaWiki fetch happens only in mediawiki and auto mode and switches the
\* run to the GitHub pages.
C14_GitHubExhaustionFailsRun ==
  /\ "github" \in thrown =>
       /\ pc = "failed"
       /\ exitCode = <<1>>
       /\ Written = {}
  /\ "mediawiki" \in thrown =>
       /\ source # "github"
       /\ usedSource = "github"
  /\ exitCode = <<1>> <=> "github" \in thrown

C14_Witness ==
  /\ source = "auto"
  /\ thrown = {"mediawiki", "github"}
  /\ pc = "failed"
  /\ exitCode = <<1>>
  /\ attempt = retries + 2

\* C19: from the point scrapeAll starts writing, its types array has 16
\* records with 16 distinct codes, one per TYPE_CODES entry in order,
\* relations has 8 pairs whose members are all in TYPE_CODES, and the
\* written types.json and relations.json are those arrays.
C19_SmokeTestsHold ==
  pc \in {"write", "done"} =>
    /\ smokeTests(scraped, relations)
    /\ \A i \in 1..Len(TYPE_CODES) : scraped[i].code = TYPE_CODES[i]
    /\ \A i \in 1..Len(files) :
         /\ files[i].name = "types.json" => smokeTests(files[i].data, relations)
         /\ files[i].name = "relations.json" =>
              smokeTests(scraped, files[i].data)

C19_Witness ==
  /\ pc = "done"
  /\ source = "mediawiki"
  /\ usedSource = "github"
  /\ Written = {OUT_FILES[i] : i \in 1..Len(OUT_FILES)}
  /\ smokeTests(files[1].data, files[2].data)

(* ------------------------------------------------------------------ *)
(* Properties of the routing                                           *)
(* ------------------------------------------------------------------ *)

XXX == <<"X","X","X">>
YYY == <<"Y","Y","Y">>

\* Equality of routes up to undefined fields.
routeEq(r1, r2) ==
  /\ r1.name = r2.name
  /\ \A f \in {"code", "focus", "a", "b"} : Field(r1, f) = Field(r2, f)

\* C15: a code that is not one of the 16 canonical codes is an error at
\* every caller: fetchType throws, the type page opened for it shows no
\* other type's record, and no render dereferences a missing record.
C15_UnknownCodeIsError ==
  /\ \A c \in {XXX, YYY, toUpperCase(Chars["#/type/lii"])} :
       c \notin CanonicalCodes => "throws" \in DOMAIN fetchType(c)
  /\ route.name = "type" /\ route.code \notin CanonicalCodes =>
       detail = Null
  /\ ~crashed

\* C16: the shareable URLs open their views: #/types/LII the type page of
\* LII, #/glossary/Te the glossary focused on Te, #/compare/LII/SEI the
\* compare page with a = LII and b = SEI.
C16_ShareableUrlsOpen ==
  /\ hash = Chars["#/types/LII"] =>
       /\ routeEq(hashToRoute(hash), [name |-> "type", code |-> LII])
       /\ pending = 0 /\ ~crashed => route.name = "type" /\ detail = LII
  /\ hash = Chars["#/glossary/Te"] =>
       /\ routeEq(hashToRoute(hash),
                  [name |-> "glossary", focus |-> <<"T","e">>])
       /\ pending = 0 /\ ~crashed => route.name = "glossary"
  /\ hash = Chars["#/compare/LII/SEI"] =>
       /\ routeEq(hashToRoute(hash),
                  [name |-> "compare", a |-> LII, b |-> SEI])
       /\ pending = 0 /\ ~crashed =>
            route.name = "compare" /\ typeA = LII /\ typeB = SEI

\* C17: whenever no hashchange event is pending, the route state equals
\* hashToRoute(location.hash) up to undefined fields.
C17_RouteFollowsHash ==
  pending = 0 => routeEq(route, hashToRoute(hash))

(* ------------------------------------------------------------------ *)
(* Properties of the search box                                        *)
(* ------------------------------------------------------------------ *)

Finds(kind, id) ==
  \E k \in 1..Len(results) : results[k] = [kind |-> kind, id |-> id]

\* A query equal to a type code in any letter case (after trimming) gives
\* at most 10 results, the type among them, with and without the index.
CodeFindsType ==
  \A k \in 1..Len(TYPE_CODES) :
    toUpperCase(trim(query)) = TYPE_CODES[k]
      => Len(results) <= 10 /\ Finds("type", TYPE_CODES[k])

\* The number of entries matching the text that come before the k-th
\* glossary term: the types in their order, then the earlier terms.
matchesBefore(text, k, hasIndex) ==
  LET q == toLowerCase(trim(text))
  IN  IF hasIndex
      THEN Len(filterIndex(SubSeq(searchIndex, 1, Len(types) + k - 1), q))
      ELSE Len(fromTypes(types, q))
           + Len(fromGloss(SubSeq(glossary, 1, k - 1), q))

\* C20 as stated: a type code in any letter case finds its type among at
\* most 10 results in both modes, and a query that is a substring of a
\* glossary term's definition finds that term.
C20_CodeAndDefinitionFound ==
  /\ CodeFindsType
  /\ \A k \in 1..Len(glossary) :
       (query # <<>> /\ Includes(glossary[k].shortDef, query))
         => Finds("gloss", glossary[k].term)

\* C20, amended: a type code in any letter case finds its type among at
\* most 10 results in both modes, and a query that is a substring of a
\* glossary term's definition and is not blank finds that term when fewer
\* than 10 matching entries come before the term.
C20_CodeAndEarlyDefinitionFound ==
  /\ CodeFindsType
  /\ \A k \in 1..Len(glossary) :
       ( /\ trim(query) # <<>>
         /\ Includes(glossary[k].shortDef, query)
         /\ matchesBefore(query, k, indexed) < 10 )
         => Finds("gloss", glossary[k].term)

\* "ili" is the code ILI in lower case and a piece of the definition of Ne
\* ("possibilities"): the index lists the type ILI and the term Ne.
C20_Witness ==
  /\ indexed
  /\ query = <<"i","l","i">>
  /\ results = << [kind |-> "type", id |-> ILI],
                  [kind |-> "gloss", id |-> <<"N","e">>] >>

(* ------------------------------------------------------------------ *)
(* Properties of fetchWithRetry                                        *)
(* ------------------------------------------------------------------ *)

\* C21: a call issues at most retries + 1 requests (the first attempt and
\* `retries` retries), and when it throws it has issued exactly that many.
C21_AtMostRetriesPlusOneRequests ==
  /\ nreq <= retriesOpt + 1
  /\ fpc = "threw" => nreq = retriesOpt + 1

\* C22: the k-th wait is 400 * k ms; after a failed attempt that is not the
\* last the call waits that long and the next attempt starts no earlier;
\* no wait follows a successful attempt or the final failure.
C22_LinearBackoff ==
  /\ \A k \in 1..Len(waits) : waits[k] = 400 * k
  /\ fpc = "backoff" =>
       Len(waits) = fattempt /\ wakeAt = failedAt + 400 * fattempt
  /\ fpc = "fetching" =>
       /\ Len(waits) = fattempt - 1
       /\ fattempt > 1 => startedAt >= failedAt + 400 * (fattempt - 1)
  /\ fpc \in {"returned", "threw"} => Len(waits) = fattempt - 1

\* With the default options every attempt failed at once: the call waited
\* 400, 800 and 1200 ms and threw after the last attempt without waiting.
C22_Witness ==
  /\ retriesOpt = retries
  /\ fpc = "threw"
  /\ waits = <<400, 800, 1200>>
  /\ now = 2400

\* C23: at most one abort timer is armed, it belongs to the attempt in
\* progress and is due timeoutMs after that attempt started; a timer only
\* ever fires during its own attempt; no timer is armed once the call has
\* returned or thrown.
C23_IndependentTimeouts ==
  /\ Cardinality(timers) <= 1
  /\ \A t \in timers :
       /\ fpc = "fetching"
       /\ t.attempt = fattempt
       /\ t.due = startedAt + timeoutMs
  /\ \A e \in abortLog : e.timer = e.running
  /\ fpc \in {"returned", "threw"} => timers = {}

\* The first attempt was aborted by its timer after 8000 ms; the second
\* attempt runs with a timer of its own.
C23_Witness ==
  /\ abortLog = {[timer |-> 1, running |-> 1]}
  /\ fpc = "fetching"
  /\ fattempt = 2
  /\ startedAt = timeoutMs + 400
  /\ timers = {[attempt |-> 2, due |-> startedAt + timeoutMs]}

(* ------------------------------------------------------------------ *)
(* Properties of the page loop and of the sources                      *)
(* ------------------------------------------------------------------ *)

\* C24: at most one request is in flight; a request in flight is for the
\* code the loop stands at, with the pages of all earlier codes fetched and
\* parsed; the records are collected, and types.json is written, in
\* TYPE_CODES order.
C24_SequentialInOrder ==
  /\ Len(inflight) <= 1
  /\ \A i \in 1..Len(inflight) :
       /\ inflight[i].code = TYPE_CODES[codeIdx]
       /\ Len(acc) = codeIdx - 1
  /\ \A i \in 1..Len(acc) : acc[i].code = TYPE_CODES[i]
  /\ \A f \in 1..Len(files) :
       files[f].name = "types.json" =>
         /\ Len(files[f].data) = Len(TYPE_CODES)
         /\ \A i \in 1..Len(TYPE_CODES) :
              files[f].data[i].code = TYPE_CODES[i]

\* After a fallback in auto mode the request for the last GitHub page is
\* in flight, a retry, with the 15 earlier records collected.
C24_Witness ==
  /\ source = "auto"
  /\ pc = "github"
  /\ attempt = 1
  /\ inflight = <<[source |-> "github", code |-> TYPE_CODES[16]]>>
  /\ Len(acc) = 15

\* The records of a list all have the given href.
AllFrom(ts, href) == \A i \in 1..Len(ts) : ts[i].href = href

\* C25: while a loop runs, the records collected so far all come from the
\* source of that loop (a fallback starts over from GitHub with none of the
\* MediaWiki records); the 16 records of a written types.json come from one
\* source, and a written meta.json names the MediaWiki API exactly when they
\* all came from MediaWiki.
C25_NeverMixesSources ==
  /\ pc = "mediawiki" => AllFrom(acc, "MW_PAGE_BASE")
  /\ pc = "github" => AllFrom(acc, "wikisocion.github.io")
  /\ \A f \in 1..Len(files) :
       files[f].name = "types.json" =>
         /\ Len(files[f].data) = 16
         /\ \/ AllFrom(files[f].data, "MW_PAGE_BASE")
            \/ AllFrom(files[f].data, "wikisocion.github.io")
  /\ \A f \in 1..Len(files) :
       files[f].name = "meta.json" =>
         (files[f].data.types = "MW_API"
            <=> AllFrom(files[1].data, "MW_PAGE_BASE"))

\* A run in mediawiki mode whose MediaWiki fetch gave out fell back and
\* wrote its five files: GitHub records, and a meta.json that says so.
C25_Witness ==
  /\ source = "mediawiki"
  /\ thrown = {"mediawiki"}
  /\ pc = "done"
  /\ Len(files) = 5
  /\ AllFrom(files[1].data, "wikisocion.github.io")
  /\ files[5].data.types = "wikisocion.github.io"

(* ------------------------------------------------------------------ *)
(* Properties of the data loading                                      *)
(* ------------------------------------------------------------------ *)

\* All three chains of the hook have run to their end.
AllSettled ==
  /\ handled = {"core", "meta", "search"}
  /\ \A f \in CORE_FILES \cup OPTIONAL_FILES : loads[f] # "pending"

\* C26: once every load has settled with the core load successful, the
\* state holds types, glossary and relations with error = null, and meta and
\* search hold their values exactly when their own load gave one, whatever
\* the order of completion; in every state an error goes with no types, no
\* glossary and no relations.
C26_LoadOrderInsensitive ==
  /\ (AllSettled /\ \A f \in CORE_FILES : loads[f] = "ok") =>
       /\ data.types = types
       /\ data.glossary = glossary
       /\ data.relations = relations
       /\ data.error = Null
       /\ data.meta = IF loads["meta.json"] = "ok" THEN metaJson ELSE Null
       /\ data.search = IF loads["search.json"] = "ok" THEN searchIndex
                        ELSE Null
  /\ data.error # Null =>
       data.types = Null /\ data.glossary = Null /\ data.relations = Null

\* Everything has settled: the core data and meta.json arrived, search.json
\* did not.
C26_Witness ==
  /\ AllSettled
  /\ data.types = types
  /\ data.error = Null
  /\ data.meta = metaJson
  /\ loads["search.json"] = "failed"
  /\ data.search = Null

\* C27: when the three core files have loaded, fetchLocalData does not
\* reject, whatever happens to meta.json and search.json; the value it
\* resolves with has the meta of the file, or {mode: "local"} without one,
\* and the entries of search.json, or the rebuilt index without them.
C27_OptionalFilesAreOptional ==
  (\A f \in CORE_FILES : localLoads[f] = "ok") =>
    /\ localPc # "rejected"
    /\ localPc = "resolved" =>
         /\ localResult.meta =
              IF localLoads["meta.json"] = "ok" THEN withMode(metaJson)
              ELSE [mode |-> "local"]
         /\ localResult.search =
              IF localLoads["search.json"] = "ok" THEN fileEntries
              ELSE buildSearchEntries(types, glossary)

\* C28: whatever the order in which the requests complete, the types the
\* call resolves with are the 16 records in TYPE_CODES order, every request
\* having succeeded; once a request has failed the call is rejected and
\* stays so.
C28_AllOrNothingInOrder ==
  /\ livePc = "resolved" =>
       /\ Len(liveResult) = 16
       /\ \A k \in 1..16 :
            liveLoads[k] = "ok" /\ liveResult[k] = fetchType(TYPE_CODES[k])
  /\ (\E k \in 1..Len(liveLoads) : liveLoads[k] = "failed") =>
       livePc = "rejected"

\* All 16 requests succeeded and the call resolved.
C28_Witness ==
  /\ livePc = "resolved"
  /\ liveResult[1].code = ILE
  /\ liveResult[16].code = IEE

(* ------------------------------------------------------------------ *)
(* The hash encoding: hashToRoute after routeToHash                    *)
(* ------------------------------------------------------------------ *)

\* The hashes tried: with and without "#" and "#/", every root the switch
\* of hashToRoute knows and one it does not, no, one or two further parts,
\* in either letter case, with single, doubled and trailing slashes.
HashPrefixes == {<<>>, <<"#">>, Chars["#/"]}
HashRoots ==
  {Chars[n] : n \in pageNames \cup {"type", "glossary", "compare"}}
  \cup {<<"n","o","w","h","e","r","e">>}
FirstParts == {<<"l","i","i">>, LII, <<"T","e">>, XXX}
SecondParts == {SEI, <<"s","e","i">>}
Slashes == {<<"/">>, <<"/","/">>}
TripHashes ==
  HashPrefixes
  \cup {p \o r \o t : p \in HashPrefixes, r \in HashRoots,
                      t \in {<<>>, <<"/">>}}
  \cup {p \o r \o s \o x \o t :
          p \in HashPrefixes, r \in HashRoots, s \in Slashes,
          x \in FirstParts, t \in {<<>>, <<"/">>}}
  \cup {p \o r \o s \o x \o <<"/">> \o y :
          p \in HashPrefixes, r \in HashRoots, s \in Slashes,
          x \in FirstParts, y \in SecondParts}

\* The page is opened with an empty hash and shows nothing but the route.
InitTrip ==
  /\ AppInit
  /\ RouteIdle
  /\ ScrapeIdle
  /\ SearchIdle
  /\ IoIdle

\* A URL is typed into the address bar: location.hash = h
typeHash(h) ==
  /\ hash = <<>>
  /\ hash' = h
  /\ UNCHANGED <<pending, typeA, typeB, crashed>>
  /\ UNCHANGED <<appVars, scrapeVars, searchVars, ioVars>>

\* hash = routeToHash(route)
encodeRoute ==
  /\ hash' = routeToHash(route)
  /\ UNCHANGED <<pending, typeA, typeB, crashed>>
  /\ UNCHANGED <<appVars, scrapeVars, searchVars, ioVars>>

\* route = hashToRoute(hash)
decodeHash ==
  /\ route' = hashToRoute(hash)
  /\ UNCHANGED <<a, b, relInfo, ribbons, dualCode, other, detail>>
  /\ UNCHANGED <<scrapeVars, routeVars, searchVars, ioVars>>

NextTrip ==
  \/ encodeRoute
  \/ decodeHash
  \/ \E h \in TripHashes : typeHash(h)

SpecTrip == InitTrip /\ [][NextTrip]_vars

(* ------------------------------------------------------------------ *)
(* Properties of the hash encoding                                     *)
(* ------------------------------------------------------------------ *)

\* C29: every route that hashToRoute returns is parsed back from its own
\* hash: hashToRoute(routeToHash(r)) equals r, up to undefined fields.
C29_HashRoundTrip ==
  routeEq(hashToRoute(routeToHash(route)), route)

(* ------------------------------------------------------------------ *)
(* Properties of the labels returned                                   *)
(* ------------------------------------------------------------------ *)

\* The labels classifyRelation returns for canonical records.
ReturnedLabels ==
  {"Identity", "Duality", "Activation", "Semi-duality", "Extinguishment",
   "Conflict", "Business", "Other"}

\* The rules that come before Super-ego in the ternary chain.
earlierRule(aType, bType, duals) ==
  \/ isIdentity(aType, bType)
  \/ isDual(aType, bType, duals)
  \/ activator(aType, bType)
  \/ mirror(aType, bType)
  \/ semiDual(aType, bType)
  \/ extinguishment(aType, bType)
  \/ conflict(aType, bType, duals)
  \/ business(aType, bType, duals)

====
